---- MODULE Spec2Model ----
(***************************************************************************)
(* FabricPipelineOrchestrator (src/tools/fabricpipelines.ts): the pipeline *)
(* graph builders, the upsert of a definition through makeApiRequest, the  *)
(* batch deployment of dataflows and pipelines, and the run of an upserted *)
(* activity graph under its 'Succeeded' dependency conditions (Spec); and  *)
(* DimensionalModelingTools (src/tools/dimensional.ts): the synthesis of   *)
(* dimension and fact tables and the validation of a star schema, with the *)
(* script generators of DataWarehouseManagement (src/tools/datawarehouse   *)
(* .ts) (SpecModeling); and the server of src/index.ts: the tool objects   *)
(* made at start-up and the ListTools and CallTool handlers (SpecServer).  *)
(*                                                                         *)
(* Every variable but fabricToken and workspaceUrl is local to one         *)
(* invocation of the orchestrator, so invocations are followed one at a    *)
(* time: a new call is made when the previous one has settled, and once    *)
(* the run of an upserted graph has started it is followed to its end.     *)
(***************************************************************************)
EXTENDS Integers, Sequences, FiniteSets, TLC

\* Longest input list (childPipelines, dimensionPipelines, factPipelines,
\* dimensionMappings, dataFlows, pipelines) the calls are made with.
MaxLen == 2

\* Names the caller draws pipeline, dimension and dataflow names from.
Names == {"A", "B"}

\* Names of schemas, fact tables and master pipelines.
SchemaNames == {"Sales"}

\* An optional value (TypeScript's T | undefined): None or Some(v).
None == <<>>
Some(v) == <<v>>

SeqsUpTo(S, n) == UNION {[1..k -> S] : k \in 0..n}

NameLists == SeqsUpTo(Names, MaxLen)

VARIABLES
  fabricToken,        \* this.fabricToken is set
  workspaceUrl,       \* this.workspaceUrl is set
  op,                 \* the method of the latest call
  args,               \* the arguments of the latest call
  outcome,            \* "none", "pending", "returned" or "raised"
  pipelineDefinition, \* the PipelineDefinition the latest builder call built
  requests,           \* the fetch requests the latest call has issued
  run,                \* the upserted activity graph and each activity's status
  loop,               \* deployPipelinePackage: "none", "dataFlows", "pipelines"
  index,              \* deployPipelinePackage: position in the current loop
  awaiting,           \* deployPipelinePackage: inside the await of an item
  deploymentResults,  \* deployPipelinePackage: the accumulated result
  attempts,           \* deployPipelinePackage: start and end of each attempt
  trigger,            \* createScheduledPipeline: the trigger body, the request
                      \* awaited and the responses received
  result,             \* DimensionalModelingTools, DataWarehouseManagement:
                      \* the value the call returned
  database,           \* the table a generated data-quality procedure checks
                      \* and the rows it has put in DataQualityResults
  earlier,            \* the value an earlier call of the same tool with the
                      \* same arguments returned
  config,             \* index.ts: which settings getConfig() found
  tools,              \* index.ts: the tool objects that are not null
  response            \* index.ts: the answer to the latest request

vars == <<fabricToken, workspaceUrl, op, args, outcome, pipelineDefinition,
          requests, run, loop, index, awaiting, deploymentResults, attempts,
          trigger, result, database, earlier, config, tools, response>>

serverVars == <<config, tools, response>>

NoDefinition == [name |-> "", activities |-> <<>>]
NoRun == [activities |-> <<>>, status |-> <<>>]
NoResults == [deployedPipelines |-> <<>>, deployedDataFlows |-> <<>>, errors |-> <<>>]
NoTrigger == [triggerBody |-> None, awaiting |-> "none", responses |-> <<>>]
NoResult == None
NoDatabase == [table |-> <<>>, DataQualityResults |-> <<>>]
NoConfig == <<>>
NoTools == {}
NoResponse == [kind |-> "none", tools |-> {}, name |-> <<>>, handler |-> "none",
               isError |-> FALSE, text |-> ""]

(***************************************************************************)
(* The activity lists of the four graph builders.                          *)
(***************************************************************************)

\* createDimensionLoadPipeline: the lookup, then the SCD-2 data flow or the
\* type-1 upsert; scdType defaults to 2.
DimensionLoadActivities(scdTypeArg) ==
  LET scdType == IF scdTypeArg = None THEN 2 ELSE scdTypeArg[1]
  IN <<[name |-> "LookupExistingRecords", type |-> "Lookup", dependsOn |-> None],
       IF scdType = 2
       THEN [name |-> "ProcessSCDType2", type |-> "DataFlow",
             dependsOn |-> Some(<<"LookupExistingRecords">>)]
       ELSE [name |-> "UpsertDimension", type |-> "Copy",
             dependsOn |-> Some(<<"LookupExistingRecords">>)]>>

\* createFactLoadPipeline: one lookup per mapping, the transform, the load.
FactLookupActivity(mapping) ==
  [name |-> "Lookup" \o mapping.dimension, type |-> "Lookup", dependsOn |-> None]

FactTransformDependsOn_First(dimensionMappings) ==
  IF dimensionMappings = <<>> THEN <<>>
  ELSE <<"Lookup" \o dimensionMappings[1].dimension>>

FactTransformDependsOn(dimensionMappings) ==
  [i \in 1..Len(dimensionMappings) |-> "Lookup" \o dimensionMappings[i].dimension]

FactLoadActivities(dimensionMappings) ==
  [i \in 1..Len(dimensionMappings) |-> FactLookupActivity(dimensionMappings[i])]
  \o <<[name |-> "TransformFactData", type |-> "DataFlow",
        dependsOn |-> Some(FactTransformDependsOn(dimensionMappings))],
       [name |-> "LoadFactTable", type |-> "Copy",
        dependsOn |-> Some(<<"TransformFactData">>)]>>

\* createMasterPipeline: the dependsOn of the activity at (1-based) position i
\* of the sequential branch; index > 0 in the source is i > 1 here.
MasterDependsOn_Skip(childPipelines, i) ==
  IF i > 2 THEN Some(<<"Execute_" \o childPipelines[i - 2]>>) ELSE None

MasterDependsOn(childPipelines, i) ==
  IF i > 1 THEN Some(<<"Execute_" \o childPipelines[i - 1]>>) ELSE None

\* sequential defaults to false.
MasterActivities(childPipelines, sequentialArg) ==
  LET sequential == IF sequentialArg = None THEN FALSE ELSE sequentialArg[1]
  IN IF sequential
     THEN [i \in 1..Len(childPipelines) |->
             [name |-> "Execute_" \o childPipelines[i], type |-> "Execute",
              dependsOn |-> MasterDependsOn(childPipelines, i)]]
     ELSE [i \in 1..Len(childPipelines) |->
             [name |-> "Execute_" \o childPipelines[i], type |-> "Execute",
              dependsOn |-> None]]

\* createStarSchemaETLPipeline: the dimension loads, the fact loads, the check.
StarDimensionActivity(pipeline) ==
  [name |-> "Load_" \o pipeline, type |-> "Execute", dependsOn |-> None]

StarFactDependsOn_First(dimensionPipelines) ==
  IF dimensionPipelines = <<>> THEN <<>> ELSE <<"Load_" \o dimensionPipelines[1]>>

StarFactDependsOn(dimensionPipelines) ==
  [i \in 1..Len(dimensionPipelines) |-> "Load_" \o dimensionPipelines[i]]

StarFactActivity(pipeline, dimensionPipelines) ==
  [name |-> "Load_" \o pipeline, type |-> "Execute",
   dependsOn |-> Some(StarFactDependsOn(dimensionPipelines))]

StarQualityCheckActivity_FirstFact(factPipelines) ==
  [name |-> "DataQualityCheck", type |-> "Lookup",
   dependsOn |-> Some(<<"Load_" \o (IF factPipelines = <<>> THEN "undefined"
                                     ELSE factPipelines[1])>>)]

StarQualityCheckActivity(factPipelines) ==
  [name |-> "DataQualityCheck", type |-> "Lookup",
   dependsOn |-> Some([i \in 1..Len(factPipelines) |-> "Load_" \o factPipelines[i]])]

StarActivities_NoCheck(dimensionPipelines, factPipelines) ==
  [i \in 1..Len(dimensionPipelines) |-> StarDimensionActivity(dimensionPipelines[i])]
  \o [i \in 1..Len(factPipelines) |->
        StarFactActivity(factPipelines[i], dimensionPipelines)]

StarActivities(dimensionPipelines, factPipelines) ==
  [i \in 1..Len(dimensionPipelines) |-> StarDimensionActivity(dimensionPipelines[i])]
  \o [i \in 1..Len(factPipelines) |->
        StarFactActivity(factPipelines[i], dimensionPipelines)]
  \o <<StarQualityCheckActivity(factPipelines)>>

(***************************************************************************)
(* createDataPipeline and makeApiRequest.                                  *)
(***************************************************************************)

\* The dependsOn of an activity in the request body: absent becomes [].
BodyDependsOn_Dropped(activity) == <<>>

BodyDependsOn(activity) ==
  IF activity.dependsOn = None
  THEN <<>>
  ELSE [j \in 1..Len(activity.dependsOn[1]) |->
          [activity |-> activity.dependsOn[1][j],
           dependencyConditions |-> <<"Succeeded">>]]

PipelineBody(definition) ==
  [i \in 1..Len(definition.activities) |->
     [name |-> definition.activities[i].name,
      type |-> definition.activities[i].type,
      dependsOn |-> BodyDependsOn(definition.activities[i])]]

\* makeApiRequest throws before any fetch unless token and URL are both set.
Configured_TokenOnly == fabricToken

Configured == fabricToken /\ workspaceUrl

\* The fetch of makeApiRequest(endpoint, method): none is issued when
\* makeApiRequest throws first.
Fetches(method, endpoint) ==
  IF Configured THEN <<[method |-> method, endpoint |-> endpoint]>> ELSE <<>>

\* The previous call has settled and no run is under way.
CanCall ==
  /\ outcome # "pending"
  /\ \A i \in 1..Len(run.status) : run.status[i] = "Pending"

\* A builder's tail: return await this.createDataPipeline(pipelineDefinition),
\* inside the builder's try/catch, which rethrows. The definition is the one
\* the builder has just built (pipelineDefinition').
CreateDataPipeline(responseOk) ==
  /\ requests' = Fetches("PUT", "pipelines/" \o pipelineDefinition'.name)
  /\ IF Configured /\ responseOk
     THEN /\ outcome' = "returned"
          /\ run' = [activities |-> PipelineBody(pipelineDefinition'),
                     status |-> [i \in 1..Len(pipelineDefinition'.activities)
                                   |-> "Pending"]]
     ELSE /\ outcome' = "raised"
          /\ run' = NoRun
  /\ loop' = "none"
  /\ index' = 0
  /\ awaiting' = FALSE
  /\ deploymentResults' = NoResults
  /\ attempts' = <<>>
  /\ trigger' = NoTrigger
  /\ UNCHANGED <<fabricToken, workspaceUrl, result, database,
                 earlier, serverVars>>

CreateDimensionLoadPipeline ==
  \E dimensionName \in Names, scdTypeArg \in {None, Some(1), Some(2)},
     responseOk \in BOOLEAN :
    /\ CanCall
    /\ op' = "createDimensionLoadPipeline"
    /\ args' = [dimensionName |-> dimensionName, scdType |-> scdTypeArg]
    /\ pipelineDefinition' = [name |-> "pl_Load_" \o dimensionName,
                              activities |-> DimensionLoadActivities(scdTypeArg)]
    /\ CreateDataPipeline(responseOk)

CreateFactLoadPipeline ==
  \E factName \in SchemaNames, dimensions \in NameLists, responseOk \in BOOLEAN :
    /\ CanCall
    /\ op' = "createFactLoadPipeline"
    /\ args' = [factName |-> factName,
                dimensionMappings |->
                  [i \in 1..Len(dimensions) |-> [dimension |-> dimensions[i]]]]
    /\ pipelineDefinition' = [name |-> "pl_Load_" \o factName,
                              activities |-> FactLoadActivities(args'.dimensionMappings)]
    /\ CreateDataPipeline(responseOk)

CreateMasterPipeline ==
  \E name \in SchemaNames, childPipelines \in NameLists,
     sequentialArg \in {None, Some(TRUE), Some(FALSE)}, responseOk \in BOOLEAN :
    /\ CanCall
    /\ op' = "createMasterPipeline"
    /\ args' = [name |-> name, childPipelines |-> childPipelines,
                sequential |-> sequentialArg]
    /\ pipelineDefinition' = [name |-> name,
                              activities |-> MasterActivities(childPipelines,
                                                              sequentialArg)]
    /\ CreateDataPipeline(responseOk)

CreateStarSchemaETLPipeline ==
  \E starSchemaName \in SchemaNames, dimensionPipelines \in NameLists,
     factPipelines \in NameLists, responseOk \in BOOLEAN :
    /\ CanCall
    /\ op' = "createStarSchemaETLPipeline"
    /\ args' = [starSchemaName |-> starSchemaName,
                dimensionPipelines |-> dimensionPipelines,
                factPipelines |-> factPipelines]
    /\ pipelineDefinition' = [name |-> "pl_" \o starSchemaName \o "_ETL",
                              activities |-> StarActivities(dimensionPipelines,
                                                            factPipelines)]
    /\ CreateDataPipeline(responseOk)

(***************************************************************************)
(* deployPipelinePackage: one attempt at a time, each an awaited call of   *)
(* createDataFlow or createDataPipeline inside its own try/catch.          *)
(***************************************************************************)

\* The two for-loops in the order the method runs them.
LoopOrder_PipelinesFirst == <<"pipelines", "dataFlows">>

LoopOrder == <<"dataFlows", "pipelines">>

Items(kind) == IF kind = "dataFlows" THEN args.dataFlows ELSE args.pipelines

\* The loop and index of the first item at or after loop number p, index i;
\* loop "none" when both loops are over.
RECURSIVE Position(_, _)
Position(p, i) ==
  IF p > Len(LoopOrder) THEN [loop |-> "none", index |-> 0]
  ELSE IF i <= Len(Items(LoopOrder[p])) THEN [loop |-> LoopOrder[p], index |-> i]
  ELSE Position(p + 1, 1)

LoopNumber(kind) == CHOOSE p \in 1..Len(LoopOrder) : LoopOrder[p] = kind

\* The text of the error an attempt throws (the HTTP status is left out).
ItemError(kind) ==
  (IF kind = "dataFlows"
   THEN "Error: Failed to create data flow: Error: "
   ELSE "Error: Failed to create data pipeline: Error: ")
  \o (IF Configured
      THEN "Fabric API error"
      ELSE "Fabric token and workspace URL are required for pipeline operations")

ErrorEntry(kind, name) ==
  (IF kind = "dataFlows"
   THEN "Failed to deploy data flow "
   ELSE "Failed to deploy pipeline ")
  \o name \o ": " \o ItemError(kind)

\* The try branch after the await: push the name on the list of its kind.
SettleSuccess(results, kind, name) ==
  IF kind = "dataFlows"
  THEN [results EXCEPT !.deployedDataFlows = Append(@, name)]
  ELSE [results EXCEPT !.deployedPipelines = Append(@, name)]

\* The catch branch of an item: record the error, go on with the next item.
SettleFailure_Rethrow(results, kind, name) ==
  [results |-> results, raised |-> TRUE]

SettleFailure_Swallow(results, kind, name) ==
  [results |-> results, raised |-> FALSE]

SettleFailure(results, kind, name) ==
  [results |-> [results EXCEPT !.errors = Append(@, ErrorEntry(kind, name))],
   raised |-> FALSE]

\* The call: the results are initialised and the first loop is entered; with
\* two empty lists the method returns at once.
DeployPipelinePackage ==
  \E pipelines \in NameLists, dataFlows \in NameLists :
    /\ CanCall
    /\ op' = "deployPipelinePackage"
    /\ args' = [pipelines |-> pipelines, dataFlows |-> dataFlows]
    /\ pipelineDefinition' = NoDefinition
    /\ requests' = <<>>
    /\ run' = NoRun
    /\ deploymentResults' = NoResults
    /\ attempts' = <<>>
    /\ awaiting' = FALSE
    /\ LET first == Position(1, 1)'
       IN /\ loop' = first.loop
          /\ index' = first.index
          /\ outcome' = IF first.loop = "none" THEN "returned" ELSE "pending"
    /\ trigger' = NoTrigger
    /\ UNCHANGED <<fabricToken, workspaceUrl, result, database,
                   earlier, serverVars>>

\* await this.createDataFlow(item) / await this.createDataPipeline(item): the
\* attempt starts, and its PUT is issued unless makeApiRequest throws first.
DeployAttempt ==
  /\ op = "deployPipelinePackage"
  /\ outcome = "pending"
  /\ ~awaiting
  /\ loop # "none"
  /\ awaiting' = TRUE
  /\ attempts' = Append(attempts, [ev |-> "start", kind |-> loop, index |-> index])
  /\ requests' = requests \o
       Fetches("PUT", (IF loop = "dataFlows" THEN "dataflows/" ELSE "pipelines/")
                      \o Items(loop)[index])
  /\ UNCHANGED <<fabricToken, workspaceUrl, op, args, outcome, pipelineDefinition,
                 run, loop, index, deploymentResults, trigger, result, database,
                 earlier, serverVars>>

\* The awaited call settles: the name or the error is pushed, and the method
\* goes on to the next item, to the next loop, or returns.
DeploySettle ==
  \E responseOk \in BOOLEAN :
    /\ op = "deployPipelinePackage"
    /\ outcome = "pending"
    /\ awaiting
    /\ awaiting' = FALSE
    /\ LET ok == Configured /\ responseOk
           name == Items(loop)[index]
           failed == SettleFailure(deploymentResults, loop, name)
           next == Position(LoopNumber(loop), index + 1)
       IN /\ attempts' = Append(attempts,
                                [ev |-> "end", kind |-> loop, index |-> index, ok |-> ok])
          /\ deploymentResults' = IF ok
                                  THEN SettleSuccess(deploymentResults, loop, name)
                                  ELSE failed.results
          /\ IF ~ok /\ failed.raised
             THEN /\ outcome' = "raised"
                  /\ loop' = "none"
                  /\ index' = 0
             ELSE /\ loop' = next.loop
                  /\ index' = next.index
                  /\ outcome' = IF next.loop = "none" THEN "returned" ELSE "pending"
    /\ UNCHANGED <<fabricToken, workspaceUrl, op, args, pipelineDefinition,
                   requests, run, trigger, result, database,
                   earlier, serverVars>>

(***************************************************************************)
(* createScheduledPipeline: the PUT of the trigger and the POST that       *)
(* starts it, each an awaited makeApiRequest inside one try/catch that     *)
(* rethrows.                                                               *)
(***************************************************************************)

TimeZones == {None, Some(""), Some("CET")}
Frequencies == {"Daily", "Weekly", "Monthly"}

\* schedule.timeZone || 'UTC': undefined and the empty string give 'UTC'.
TriggerTimeZone(timeZoneArg) ==
  IF timeZoneArg = None \/ timeZoneArg = Some("") THEN "UTC" ELSE timeZoneArg[1]

TriggerEndpoint(pipelineName) == "triggers/tr_" \o pipelineName \o "_Schedule"

\* Where control goes when the awaited PUT settles: on to the start request,
\* or to the catch block when makeApiRequest throws on a response not ok.
AfterUpsert_IgnoreFailure(responseOk) == "start"

AfterUpsert(responseOk) == IF responseOk THEN "start" ELSE "catch"

\* The call up to the first await: the trigger body is built and its PUT is
\* issued, unless makeApiRequest throws first.
CreateScheduledPipeline ==
  \E pipelineName \in Names, frequency \in Frequencies, timeZoneArg \in TimeZones :
    /\ CanCall
    /\ op' = "createScheduledPipeline"
    /\ args' = [pipelineName |-> pipelineName,
                schedule |-> [frequency |-> frequency, interval |-> 1,
                              startTime |-> "2024-01-01T00:00:00Z",
                              timeZone |-> timeZoneArg]]
    /\ trigger' =
         [triggerBody |->
            Some([type |-> "ScheduleTrigger",
                  recurrence |-> [frequency |-> frequency, interval |-> 1,
                                  startTime |-> "2024-01-01T00:00:00Z",
                                  timeZone |-> TriggerTimeZone(timeZoneArg)],
                  pipelines |-> <<[referenceName |-> pipelineName,
                                   type |-> "PipelineReference"]>>]),
          awaiting |-> IF Configured THEN "upsert" ELSE "none",
          responses |-> <<>>]
    /\ requests' = Fetches("PUT", TriggerEndpoint(pipelineName))
    /\ outcome' = IF Configured THEN "pending" ELSE "raised"
    /\ pipelineDefinition' = NoDefinition
    /\ run' = NoRun
    /\ loop' = "none"
    /\ index' = 0
    /\ awaiting' = FALSE
    /\ deploymentResults' = NoResults
    /\ attempts' = <<>>
    /\ UNCHANGED <<fabricToken, workspaceUrl, result, database,
                   earlier, serverVars>>

\* The PUT settles: the start request is issued, or the call raises.
ScheduleUpsertSettle ==
  \E responseOk \in BOOLEAN :
    /\ op = "createScheduledPipeline"
    /\ trigger.awaiting = "upsert"
    /\ IF AfterUpsert(responseOk) = "start"
       THEN /\ requests' = requests
                  \o Fetches("POST", TriggerEndpoint(args.pipelineName) \o "/start")
            /\ trigger' = [trigger EXCEPT !.awaiting = "start",
                                          !.responses = Append(@, responseOk)]
            /\ outcome' = outcome
       ELSE /\ requests' = requests
            /\ trigger' = [trigger EXCEPT !.awaiting = "none",
                                          !.responses = Append(@, responseOk)]
            /\ outcome' = "raised"
    /\ UNCHANGED <<fabricToken, workspaceUrl, op, args, pipelineDefinition, run,
                   loop, index, awaiting, deploymentResults, attempts, result, database,
                   earlier, serverVars>>

\* The POST settles: the call returns the trigger's name, or raises.
ScheduleStartSettle ==
  \E responseOk \in BOOLEAN :
    /\ op = "createScheduledPipeline"
    /\ trigger.awaiting = "start"
    /\ trigger' = [trigger EXCEPT !.awaiting = "none",
                                  !.responses = Append(@, responseOk)]
    /\ outcome' = IF responseOk THEN "returned" ELSE "raised"
    /\ UNCHANGED <<fabricToken, workspaceUrl, op, args, pipelineDefinition,
                   requests, run, loop, index, awaiting, deploymentResults,
                   attempts, result, database, earlier, serverVars>>

(***************************************************************************)
(* The run of the upserted graph: the body gives every dependency the      *)
(* condition 'Succeeded', so an activity starts only when every activity   *)
(* its dependsOn names has succeeded.                                      *)
(***************************************************************************)

DependencyNames(activity) ==
  {activity.dependsOn[j].activity : j \in 1..Len(activity.dependsOn)}

DependenciesSucceeded(i) ==
  \A j \in 1..Len(run.activities) :
    run.activities[j].name \in DependencyNames(run.activities[i])
      => run.status[j] = "Succeeded"

StartActivity ==
  \E i \in 1..Len(run.activities) :
    /\ run.status[i] = "Pending"
    /\ DependenciesSucceeded(i)
    /\ run' = [run EXCEPT !.status[i] = "Running"]
    /\ UNCHANGED <<fabricToken, workspaceUrl, op, args, outcome, pipelineDefinition,
                   requests, loop, index, awaiting, deploymentResults, attempts,
                   trigger, result, database, earlier, serverVars>>

CompleteActivity ==
  \E i \in 1..Len(run.activities), succeeded \in BOOLEAN :
    /\ run.status[i] = "Running"
    /\ run' = [run EXCEPT !.status[i] = IF succeeded THEN "Succeeded" ELSE "Failed"]
    /\ UNCHANGED <<fabricToken, workspaceUrl, op, args, outcome, pipelineDefinition,
                   requests, loop, index, awaiting, deploymentResults, attempts,
                   trigger, result, database, earlier, serverVars>>

Init ==
  /\ fabricToken \in BOOLEAN
  /\ workspaceUrl \in BOOLEAN
  /\ op = "none"
  /\ args = <<>>
  /\ outcome = "none"
  /\ pipelineDefinition = NoDefinition
  /\ requests = <<>>
  /\ run = NoRun
  /\ loop = "none"
  /\ index = 0
  /\ awaiting = FALSE
  /\ deploymentResults = NoResults
  /\ attempts = <<>>
  /\ trigger = NoTrigger
  /\ result = NoResult
  /\ database = NoDatabase
  /\ earlier = NoResult
  /\ config = NoConfig
  /\ tools = NoTools
  /\ response = NoResponse

Next ==
  \/ CreateDimensionLoadPipeline
  \/ CreateFactLoadPipeline
  \/ CreateMasterPipeline
  \/ CreateStarSchemaETLPipeline
  \/ DeployPipelinePackage
  \/ DeployAttempt
  \/ DeploySettle
  \/ CreateScheduledPipeline
  \/ ScheduleUpsertSettle
  \/ ScheduleStartSettle
  \/ StartActivity
  \/ CompleteActivity

Spec == Init /\ [][Next]_vars

(***************************************************************************)
(* DimensionalModelingTools (src/tools/dimensional.ts): generateDimension- *)
(* Table, generateFactTable and validateStarSchema. They keep no state, so *)
(* a call is followed from its arguments to the value it returns. Names    *)
(* are sequences of characters, which replace, toLowerCase and the         *)
(* template strings work on.                                               *)
(***************************************************************************)

\* Longest list of caller columns, of dimension keys, of dimension tables.
MaxCols == 2
MaxKeys == 2
MaxDims == 1

\* Longest list of dimension tables generateStarSchema is called with.
MaxTables == 2

Key == <<"K", "e", "y">>
DateKey == <<"D", "a", "t", "e", "K", "e", "y">>
FactKey == <<"F", "a", "c", "t", "K", "e", "y">>
CustomerKey == <<"C", "u", "s", "t", "o", "m", "e", "r", "K", "e", "y">>
ProductKey == <<"P", "r", "o", "d", "u", "c", "t", "K", "e", "y">>
KeyAccountKey ==
  <<"K", "e", "y", "A", "c", "c", "o", "u", "n", "t", "K", "e", "y">>
Customer == <<"C", "u", "s", "t", "o", "m", "e", "r">>
Product == <<"P", "r", "o", "d", "u", "c", "t">>
KeyAccount == <<"K", "e", "y", "A", "c", "c", "o", "u", "n", "t">>
FactSales == <<"F", "a", "c", "t", "S", "a", "l", "e", "s">>
EffectiveDate ==
  <<"E", "f", "f", "e", "c", "t", "i", "v", "e", "D", "a", "t", "e">>
ExpiryDate == <<"E", "x", "p", "i", "r", "y", "D", "a", "t", "e">>
IsCurrent == <<"I", "s", "C", "u", "r", "r", "e", "n", "t">>
RecordVersion ==
  <<"R", "e", "c", "o", "r", "d", "V", "e", "r", "s", "i", "o", "n">>
CreatedDate == <<"C", "r", "e", "a", "t", "e", "d", "D", "a", "t", "e">>
ModifiedDate == <<"M", "o", "d", "i", "f", "i", "e", "d", "D", "a", "t", "e">>
CreatedBy == <<"C", "r", "e", "a", "t", "e", "d", "B", "y">>
ModifiedBy == <<"M", "o", "d", "i", "f", "i", "e", "d", "B", "y">>
ETLBatchId == <<"E", "T", "L", "B", "a", "t", "c", "h", "I", "d">>
CustomerCode == <<"C", "u", "s", "t", "o", "m", "e", "r", "C", "o", "d", "e">>
CustomerId == <<"C", "u", "s", "t", "o", "m", "e", "r", "I", "d">>
SalesAmount == <<"S", "a", "l", "e", "s", "A", "m", "o", "u", "n", "t">>
LowerCustomerKey == <<"c", "u", "s", "t", "o", "m", "e", "r", "K", "e", "y">>
SurrogateKeySuffix == <<"_", "S", "K">>
Customs == <<"C", "u", "s", "t", "o", "m", "s">>
F == <<"F">>
Sales == <<"S", "a", "l", "e", "s">>

UpperCaseLetters ==
  <<"A", "B", "C", "D", "E", "F", "G", "H", "I", "J", "K", "L", "M",
    "N", "O", "P", "Q", "R", "S", "T", "U", "V", "W", "X", "Y", "Z">>
LowerCaseLetters ==
  <<"a", "b", "c", "d", "e", "f", "g", "h", "i", "j", "k", "l", "m",
    "n", "o", "p", "q", "r", "s", "t", "u", "v", "w", "x", "y", "z">>

\* The lower-case letter of every upper-case letter.
LowerCaseOf ==
  [c \in {UpperCaseLetters[k] : k \in 1..Len(UpperCaseLetters)} |->
     LowerCaseLetters[CHOOSE k \in 1..Len(UpperCaseLetters) :
                        UpperCaseLetters[k] = c]]

\* String.prototype.toLowerCase.
ToLowerCase(s) ==
  [i \in 1..Len(s) |->
     IF s[i] \in DOMAIN LowerCaseOf THEN LowerCaseOf[s[i]] ELSE s[i]]

\* The positions at which pattern occurs in s.
Occurrences(s, pattern) ==
  {i \in 1..Len(s) :
     /\ i + Len(pattern) - 1 <= Len(s)
     /\ SubSeq(s, i, i + Len(pattern) - 1) = pattern}

\* String.prototype.replace with a string pattern: the first occurrence of
\* the pattern is replaced, s is returned as it is when there is none.
Replace(s, pattern, replacement) ==
  IF Occurrences(s, pattern) = {} THEN s
  ELSE LET i == CHOOSE k \in Occurrences(s, pattern) :
                  \A l \in Occurrences(s, pattern) : k <= l
       IN SubSeq(s, 1, i - 1) \o replacement
          \o SubSeq(s, i + Len(pattern), Len(s))

\* String.prototype.substring(start, end) for 0 <= start <= end: the
\* characters at the 0-based positions start .. end - 1 that s has.
Substring(s, start, end) ==
  SubSeq(s, start + 1, IF end < Len(s) THEN end ELSE Len(s))

\* A DimensionColumn or FactColumn; an optional flag left out is FALSE.
DimensionColumn(name, dataType, isPrimaryKey) ==
  [name |-> name, dataType |-> dataType, isPrimaryKey |-> isPrimaryKey]

FactColumn(name, dataType, isMeasure) ==
  [name |-> name, dataType |-> dataType, isMeasure |-> isMeasure]

(***************************************************************************)
(* generateDimensionTable.                                                 *)
(***************************************************************************)

\* The defaults of the options: scdType = 2, naturalKey = [],
\* surrogateKey = `${tableName}_SK`.
DefaultedScdType_One(scdTypeArg) ==
  IF scdTypeArg = None THEN 1 ELSE scdTypeArg[1]

DefaultedScdType(scdTypeArg) ==
  IF scdTypeArg = None THEN 2 ELSE scdTypeArg[1]

DefaultedNaturalKey(naturalKeyArg) ==
  IF naturalKeyArg = None THEN <<>> ELSE naturalKeyArg[1]

DefaultedSurrogateKey(tableName, surrogateKeyArg) ==
  IF surrogateKeyArg = None THEN tableName \o SurrogateKeySuffix
  ELSE surrogateKeyArg[1]

\* standardColumns: the surrogate key, the SCD columns of type 2, the audit
\* columns.
DimensionStandardColumns(surrogateKey, scdType) ==
  <<DimensionColumn(surrogateKey, "BIGINT IDENTITY(1,1)", TRUE)>>
  \o (IF scdType = 2
      THEN <<DimensionColumn(EffectiveDate, "DATE", FALSE),
             DimensionColumn(ExpiryDate, "DATE", FALSE),
             DimensionColumn(IsCurrent, "BIT", FALSE),
             DimensionColumn(RecordVersion, "INT", FALSE)>>
      ELSE <<>>)
  \o <<DimensionColumn(CreatedDate, "DATETIME2", FALSE),
        DimensionColumn(ModifiedDate, "DATETIME2", FALSE),
        DimensionColumn(CreatedBy, "NVARCHAR(100)", FALSE),
        DimensionColumn(ModifiedBy, "NVARCHAR(100)", FALSE)>>

\* The dimensionTable of the returned value.
DimensionTableOf(call) ==
  LET scdType == DefaultedScdType(call.options.scdType)
      surrogateKey == DefaultedSurrogateKey(call.tableName,
                                            call.options.surrogateKey)
  IN [name |-> call.tableName,
      columns |-> DimensionStandardColumns(surrogateKey, scdType) \o call.columns,
      scdType |-> scdType,
      naturalKey |-> DefaultedNaturalKey(call.options.naturalKey),
      surrogateKey |-> surrogateKey]

(***************************************************************************)
(* generateFactTable.                                                      *)
(***************************************************************************)

\* standardColumns: FactKey, a column per dimension key, DateKey unless the
\* dimension keys include it, the audit columns.
FactStandardColumns(dimensionKeys) ==
  <<FactColumn(FactKey, "BIGINT IDENTITY(1,1)", FALSE)>>
  \o [i \in 1..Len(dimensionKeys) |-> FactColumn(dimensionKeys[i], "BIGINT", FALSE)]
  \o (IF \E i \in 1..Len(dimensionKeys) : dimensionKeys[i] = DateKey
      THEN <<>>
      ELSE <<FactColumn(DateKey, "INT", FALSE)>>)
  \o <<FactColumn(CreatedDate, "DATETIME2", FALSE),
        FactColumn(ETLBatchId, "BIGINT", FALSE)>>

\* measures.filter(m => m.isMeasure).map(m => m.name)
RECURSIVE MeasureNames(_)
MeasureNames(measures) ==
  IF measures = <<>> THEN <<>>
  ELSE (IF Head(measures).isMeasure THEN <<Head(measures).name>> ELSE <<>>)
       \o MeasureNames(Tail(measures))

\* dimensionKeys: dimensionKeys
FactDimensionKeys_WithDateKey(dimensionKeys) ==
  IF \E i \in 1..Len(dimensionKeys) : dimensionKeys[i] = DateKey
  THEN dimensionKeys
  ELSE Append(dimensionKeys, DateKey)

FactDimensionKeys(dimensionKeys) == dimensionKeys

\* The factTable of the returned value.
FactTableOf(call) ==
  [name |-> call.tableName,
   columns |-> FactStandardColumns(call.dimensionKeys) \o call.measures,
   measures |-> MeasureNames(call.measures),
   dimensionKeys |-> FactDimensionKeys(call.dimensionKeys)]

(***************************************************************************)
(* validateStarSchema.                                                     *)
(***************************************************************************)

\* A template string: the text before the name, the name, the text after.
Message(before, name, after) == <<before, name, after>>

NoValidationResults == [isValid |-> TRUE, warnings |-> <<>>, errors |-> <<>>]

\* if (starSchema.factTable.measures.length === 0)
CheckMeasures(results, factTable) ==
  IF Len(factTable.measures) = 0
  THEN [results EXCEPT !.warnings =
          Append(@, Message("Fact table has no measures defined", <<>>, ""))]
  ELSE results

\* dimKey.replace('Key', '')
DimensionNameOf(dimKey) == Replace(dimKey, Key, <<>>)

\* dimensionTables.find(dim => dim.name.toLowerCase() ===
\* dimensionName.toLowerCase()) finds a dimension.
HasRelatedDimension(dimensionName, dimensionTables) ==
  \E i \in 1..Len(dimensionTables) :
    ToLowerCase(dimensionTables[i].name) = ToLowerCase(dimensionName)

\* The body of dimensionKeys.forEach.
CheckDimensionKey(results, dimKey, dimensionTables) ==
  IF HasRelatedDimension(DimensionNameOf(dimKey), dimensionTables)
  THEN results
  ELSE [results EXCEPT
          !.errors = Append(@, Message("Fact table references dimension ",
                                       DimensionNameOf(dimKey),
                                       " which is not defined")),
          !.isValid = FALSE]

RECURSIVE CheckDimensionKeys(_, _, _, _)
CheckDimensionKeys(results, dimensionKeys, dimensionTables, n) ==
  IF n = 0 THEN results
  ELSE CheckDimensionKey(
         CheckDimensionKeys(results, dimensionKeys, dimensionTables, n - 1),
         dimensionKeys[n], dimensionTables)

\* if (dim.naturalKey.length === 0)
CheckNaturalKey_Invalidates(results, dim) ==
  IF Len(dim.naturalKey) = 0
  THEN [results EXCEPT
          !.warnings = Append(@, Message("Dimension ", dim.name,
                                         " has no natural key defined")),
          !.isValid = FALSE]
  ELSE results

CheckNaturalKey(results, dim) ==
  IF Len(dim.naturalKey) = 0
  THEN [results EXCEPT
          !.warnings = Append(@, Message("Dimension ", dim.name,
                                         " has no natural key defined"))]
  ELSE results

\* ['EffectiveDate', 'ExpiryDate', 'IsCurrent'].every(col =>
\*   dim.columns.some(dimCol => dimCol.name === col))
HasRequiredSCDColumns_Some(dim) ==
  \E col \in {EffectiveDate, ExpiryDate, IsCurrent} :
    \E i \in 1..Len(dim.columns) : dim.columns[i].name = col

HasRequiredSCDColumns(dim) ==
  \A col \in {EffectiveDate, ExpiryDate, IsCurrent} :
    \E i \in 1..Len(dim.columns) : dim.columns[i].name = col

\* if (dim.scdType === 2) { ... }
CheckSCDColumns(results, dim) ==
  IF dim.scdType = 2 /\ ~HasRequiredSCDColumns(dim)
  THEN [results EXCEPT
          !.errors = Append(@, Message("SCD Type 2 dimension ", dim.name,
                                       " is missing required SCD columns")),
          !.isValid = FALSE]
  ELSE results

RECURSIVE CheckDimensions(_, _, _)
CheckDimensions(results, dimensionTables, n) ==
  IF n = 0 THEN results
  ELSE CheckSCDColumns(
         CheckNaturalKey(CheckDimensions(results, dimensionTables, n - 1),
                         dimensionTables[n]),
         dimensionTables[n])

\* The validationResults of the returned value.
ValidationResultsOf(starSchema) ==
  CheckDimensions(
    CheckDimensionKeys(CheckMeasures(NoValidationResults, starSchema.factTable),
                       starSchema.factTable.dimensionKeys,
                       starSchema.dimensionTables,
                       Len(starSchema.factTable.dimensionKeys)),
    starSchema.dimensionTables, Len(starSchema.dimensionTables))

ValidationMessage(validationResults) ==
  IF validationResults.isValid THEN "Star schema validation passed"
  ELSE "Star schema validation failed"

(***************************************************************************)
(* generateStarSchema. The script is the sequence of its sections; of a    *)
(* section the statement it creates and the names it is built from are     *)
(* kept.                                                                   *)
(***************************************************************************)

\* generateViews = true by default.
DefaultedGenerateViews(generateViewsArg) ==
  IF generateViewsArg = None THEN TRUE ELSE generateViewsArg[1]

\* generateDimensionSQL: CREATE TABLE and the two optional indexes.
DimensionSQL(dimension) ==
  [kind |-> "dimension", name |-> dimension.name,
   columns |-> [i \in 1..Len(dimension.columns) |-> dimension.columns[i].name],
   naturalKeyIndex |-> Len(dimension.naturalKey) > 0,
   currentIndex |-> dimension.scdType = 2]

\* generateFactSQL: CREATE TABLE, an index per dimension key, the
\* columnstore index.
FactSQL(fact) ==
  [kind |-> "fact", name |-> fact.name,
   columns |-> [i \in 1..Len(fact.columns) |-> fact.columns[i].name],
   indexes |-> fact.dimensionKeys]

\* generateStarSchemaView: the alias of a dimension and its LEFT JOIN.
ViewAlias(dim) == Substring(ToLowerCase(dim.name), 0, 3)

ViewJoin(dim) ==
  [table |-> dim.name, alias |-> ViewAlias(dim), joinKey |-> dim.name \o Key,
   surrogateKey |-> dim.surrogateKey, isCurrent |-> dim.scdType = 2]

StarSchemaView(starSchema) ==
  [kind |-> "view", name |-> <<"v", "_">> \o starSchema.name,
   measures |-> starSchema.factTable.measures,
   attributes |-> [i \in 1..Len(starSchema.dimensionTables) |->
                     ViewAlias(starSchema.dimensionTables[i])],
   from |-> starSchema.factTable.name,
   joins |-> [i \in 1..Len(starSchema.dimensionTables) |->
                ViewJoin(starSchema.dimensionTables[i])]]

\* generateSCDStoredProcedure for every dimension with scdType === 2.
RECURSIVE SCDStoredProcedures_All(_)
SCDStoredProcedures_All(dimensionTables) ==
  IF dimensionTables = <<>> THEN <<>>
  ELSE <<[kind |-> "procedure", name |-> Head(dimensionTables).name]>>
       \o SCDStoredProcedures_All(Tail(dimensionTables))

RECURSIVE SCDStoredProcedures(_)
SCDStoredProcedures(dimensionTables) ==
  IF dimensionTables = <<>> THEN <<>>
  ELSE (IF Head(dimensionTables).scdType = 2
        THEN <<[kind |-> "procedure", name |-> Head(dimensionTables).name]>>
        ELSE <<>>)
       \o SCDStoredProcedures(Tail(dimensionTables))

StarSchemaOf(call) ==
  [name |-> call.schemaName, factTable |-> call.factTable,
   dimensionTables |-> call.dimensionTables]

\* schemaSQL, section after section.
SchemaSQLOf(call) ==
  <<[kind |-> "schema", name |-> call.schemaName]>>
  \o [i \in 1..Len(call.dimensionTables) |-> DimensionSQL(call.dimensionTables[i])]
  \o <<FactSQL(call.factTable)>>
  \o (IF DefaultedGenerateViews(call.options.generateViews)
      THEN <<StarSchemaView(StarSchemaOf(call))>>
      ELSE <<>>)
  \o SCDStoredProcedures(call.dimensionTables)

(***************************************************************************)
(* DataWarehouseManagement.createDataQualityFramework (src/tools/          *)
(* datawarehouse.ts): the results table and one procedure per rule, and    *)
(* what a generated procedure does when it is executed on a table.         *)
(***************************************************************************)

\* Longest list of rules, and most rows of the table a procedure checks.
MaxRules == 1
MaxRows == 3

\* The fallbacks of the Range bounds.
DefaultMinValue == 0
DefaultMaxValue == 999999

\* value || fallback for an optional number: undefined and 0 are falsy.
OrElse_UndefinedOnly(value, fallback) ==
  IF value = None THEN fallback ELSE value[1]

OrElse(value, fallback) ==
  IF value = None \/ value = Some(0) THEN fallback ELSE value[1]

\* rule.parameters?.minValue and rule.parameters?.maxValue
ParameterOf(parameters, key) ==
  IF parameters = None THEN None ELSE parameters[1][key]

\* The statements of the switch on rule.ruleType that set @TotalCount and
\* @FailCount.
CountsOf(rule) ==
  CASE rule.ruleType = "NotNull" -> [where |-> "IS NULL"]
    [] rule.ruleType = "Unique" -> [where |-> "COUNT(*) - COUNT(DISTINCT)"]
    [] rule.ruleType = "Range" ->
         [where |-> "NOT BETWEEN",
          minValue |-> OrElse(ParameterOf(rule.parameters, "minValue"),
                              DefaultMinValue),
          maxValue |-> OrElse(ParameterOf(rule.parameters, "maxValue"),
                              DefaultMaxValue)]
    [] OTHER -> [where |-> "none"]

\* generateDataQualityRule: CREATE PROCEDURE [dbo].[DQ_<name>].
DataQualityProcedure(rule) ==
  [kind |-> "procedure", name |-> "DQ_" \o rule.name, ruleName |-> rule.name,
   table |-> rule.table, column |-> rule.column, severity |-> rule.severity,
   counts |-> CountsOf(rule)]

\* The script: CREATE TABLE [dbo].[DataQualityResults], then the procedures.
QualityFrameworkOf(rules) ==
  <<[kind |-> "table", name |-> "DataQualityResults"]>>
  \o [i \in 1..Len(rules) |-> DataQualityProcedure(rules[i])]

\* A NULL of the checked column; a value v of it is Some(v).
Null == None

\* SELECT @TotalCount = COUNT(*) FROM the table; the default branch
\* declares both counts as 0.
TotalCount(counts, rows) ==
  IF counts.where = "none" THEN 0 ELSE Len(rows)

\* SELECT @FailCount = ...: the rows with a NULL; the rows less the distinct
\* values that are not NULL; the rows with a value, not NULL, outside the
\* bounds.
FailCount(counts, rows) ==
  CASE counts.where = "IS NULL" ->
         Cardinality({i \in 1..Len(rows) : rows[i] = Null})
    [] counts.where = "COUNT(*) - COUNT(DISTINCT)" ->
         Len(rows) - Cardinality({rows[i] : i \in 1..Len(rows)} \ {Null})
    [] counts.where = "NOT BETWEEN" ->
         Cardinality({i \in 1..Len(rows) :
                        /\ rows[i] # Null
                        /\ ~(/\ counts.minValue <= rows[i][1]
                             /\ rows[i][1] <= counts.maxValue)})
    [] OTHER -> 0

\* CASE WHEN @TotalCount > 0 THEN (@FailCount * 100.0 / @TotalCount) ELSE 0
\* END, put in the column FailurePercentage DECIMAL(5,2): the quotient
\* keeps six decimals or more and is rounded to the second on insertion.
\* The value is given in hundredths.
FailurePercentage_Truncated(failCount, totalCount) ==
  IF totalCount > 0
  THEN ((failCount * 100 * 1000000) \div totalCount) \div 10000
  ELSE 0

FailurePercentage(failCount, totalCount) ==
  IF totalCount > 0
  THEN (((failCount * 100 * 1000000) \div totalCount) + 5000) \div 10000
  ELSE 0

(***************************************************************************)
(* DataWarehouseManagement.createDataWarehouseArchitecture.                *)
(***************************************************************************)

\* Longest list of layers.
MaxLayers == 2

\* The CREATE SCHEMA statements: for every layer in order, for every schema
\* of the layer in order.
RECURSIVE LayerSchemas(_)
LayerSchemas(layers) ==
  IF layers = <<>> THEN <<>>
  ELSE [i \in 1..Len(Head(layers).schemas) |->
          [kind |-> "schema", layer |-> Head(layers).name,
           name |-> Head(layers).schemas[i]]]
       \o LayerSchemas(Tail(layers))

\* The script: the header with the instant it was made at, the database,
\* the schemas, the utility objects, the audit framework, the lineage
\* tracking. now is new Date().toISOString().
ArchitectureSQL(dwName, layers, now) ==
  <<[kind |-> "header", dwName |-> dwName, createdOn |-> now],
    [kind |-> "database", name |-> dwName]>>
  \o LayerSchemas(layers)
  \o <<[kind |-> "utility"], [kind |-> "audit"], [kind |-> "lineage"]>>

(***************************************************************************)
(* The calls of the tools and the values the arguments are drawn from.     *)
(***************************************************************************)

DimensionNames == {Customer, KeyAccount}
DimensionKeyNames == {CustomerKey, LowerCustomerKey, ProductKey, KeyAccountKey}

\* Columns a caller gives a dimension: a business column or one that bears
\* the default surrogate key's name, flagged as primary key or not.
CallerDimensionColumns ==
  {DimensionColumn(name, "NVARCHAR(50)", isPrimaryKey) :
     name \in {CustomerCode, Customer \o SurrogateKeySuffix},
     isPrimaryKey \in BOOLEAN}

\* Columns a caller gives a fact table.
CallerFactColumns ==
  {FactColumn(name, "DECIMAL(18,2)", isMeasure) :
     name \in {SalesAmount, DateKey}, isMeasure \in BOOLEAN}

GenerateDimensionTableCalls ==
  [tableName : DimensionNames,
   columns : SeqsUpTo(CallerDimensionColumns, MaxCols),
   options : [scdType : {None, Some(1), Some(2), Some(3)},
              naturalKey : {None, Some(<<>>), Some(<<CustomerCode>>)},
              surrogateKey : {None, Some(CustomerId)}]]

GenerateFactTableCalls ==
  [tableName : {FactSales},
   measures : SeqsUpTo(CallerFactColumns, MaxCols),
   dimensionKeys : SeqsUpTo(DimensionKeyNames \cup {DateKey}, MaxKeys)]

\* The column lists of the dimension tables of a star schema to validate:
\* what generateDimensionTable gives for type 1 and for type 2, and the
\* latter cut before IsCurrent.
SchemaColumnLists ==
  {DimensionStandardColumns(CustomerId, 1),
   DimensionStandardColumns(CustomerId, 2),
   SubSeq(DimensionStandardColumns(CustomerId, 2), 1, 3)}

SchemaDimensionTables ==
  [name : DimensionNames,
   columns : SchemaColumnLists,
   scdType : {1, 2, 3},
   naturalKey : {<<>>, <<CustomerCode>>},
   surrogateKey : {CustomerId}]

StarSchemas ==
  [factTable : [measures : {<<>>, <<SalesAmount>>},
                dimensionKeys : SeqsUpTo(DimensionKeyNames, MaxKeys)],
   dimensionTables : SeqsUpTo(SchemaDimensionTables, MaxDims)]

\* The tables generateStarSchema is called with are those the two generators
\* return: dimensions of every SCD type, two of them with names that begin
\* alike and one with a name of one letter, and a fact table with keys of
\* the dimension Customer.
GeneratedDimensionTables ==
  {DimensionTableOf([tableName |-> name, columns |-> <<>>,
                     options |-> [scdType |-> Some(scdType),
                                  naturalKey |-> Some(<<CustomerCode>>),
                                  surrogateKey |-> None]]) :
     name \in {Customer, Customs, F}, scdType \in {1, 2, 3}}

GeneratedFactTables ==
  {FactTableOf([tableName |-> FactSales,
                measures |-> <<FactColumn(SalesAmount, "DECIMAL(18,2)", TRUE)>>,
                dimensionKeys |-> dimensionKeys]) :
     dimensionKeys \in SeqsUpTo({CustomerKey, LowerCustomerKey}, MaxKeys)}

GenerateStarSchemaCalls ==
  [schemaName : {Sales},
   factTable : GeneratedFactTables,
   dimensionTables : SeqsUpTo(GeneratedDimensionTables, MaxTables),
   options : [generateViews : {None, Some(TRUE), Some(FALSE)}]]

\* Star schemas composed of what the two generators return: dimension tables
\* of every SCD type, the default included, and a fact table whose dimension
\* keys are the names of those dimensions, each followed by Key.
SynthesizedDimensionTables ==
  {DimensionTableOf([tableName |-> name, columns |-> <<>>,
                     options |-> [scdType |-> scdType, naturalKey |-> None,
                                  surrogateKey |-> None]]) :
     name \in DimensionNames, scdType \in {None, Some(1), Some(2), Some(3)}}

SynthesizedStarSchemas ==
  {[factTable |->
      FactTableOf([tableName |-> FactSales,
                   measures |-> <<FactColumn(SalesAmount, "DECIMAL(18,2)", TRUE)>>,
                   dimensionKeys |->
                     [i \in 1..Len(dimensionTables) |-> dimensionTables[i].name \o Key]]),
    dimensionTables |-> dimensionTables] :
     dimensionTables \in SeqsUpTo(SynthesizedDimensionTables, MaxTables)}

\* Rules of every kind; the bounds of a Range rule are left out, 0, or
\* another number, and its parameters may be left out altogether.
RangeParameters ==
  {None} \cup {Some(parameters) :
                 parameters \in [minValue : {None, Some(0), Some(5)},
                                 maxValue : {None, Some(0), Some(10)}]}

DataQualityRules ==
  {[name |-> ruleType \o "Amount", ruleType |-> ruleType, column |-> "Amount",
    table |-> "FactSales", parameters |-> None, severity |-> "Error"] :
     ruleType \in {"NotNull", "Unique", "Custom"}}
  \cup {[name |-> "RangeAmount", ruleType |-> "Range", column |-> "Amount",
         table |-> "FactSales", parameters |-> parameters,
         severity |-> "Warning"] : parameters \in RangeParameters}

\* The values of the checked column in the rows of the table.
ColumnValues == {Null, Some(0), Some(7), Some(12)}

\* The layers of a warehouse, and the instants the clock can show when the
\* architecture script is made.
DataWarehouseLayers ==
  {[name |-> "Staging", purpose |-> "Staging", description |-> "Landing area",
    schemas |-> <<"stg">>],
   [name |-> "Presentation", purpose |-> "Mart",
    description |-> "Star schemas", schemas |-> <<"dim", "fact">>]}

CreateDataWarehouseArchitectureCalls ==
  [dwName : {"DW"}, layers : SeqsUpTo(DataWarehouseLayers, MaxLayers)]

ClockReadings == {"2024-01-01T00:00:00.000Z", "2024-01-01T00:00:00.001Z"}

orchestratorVars ==
  <<fabricToken, workspaceUrl, pipelineDefinition, requests, run, loop, index,
    awaiting, deploymentResults, attempts, trigger>>

\* A tool is called, or called once more with the same arguments.
CanInvoke ==
  \/ outcome = "pending"
  \/ outcome = "returned" /\ earlier = NoResult

GenerateDimensionTable ==
  /\ op = "generateDimensionTable"
  /\ CanInvoke
  /\ result' = [dimensionTable |-> DimensionTableOf(args)]
  /\ outcome' = "returned"
  /\ earlier' = result
  /\ UNCHANGED <<op, args, database, orchestratorVars, serverVars>>

GenerateFactTable ==
  /\ op = "generateFactTable"
  /\ CanInvoke
  /\ result' = [factTable |-> FactTableOf(args)]
  /\ outcome' = "returned"
  /\ earlier' = result
  /\ UNCHANGED <<op, args, database, orchestratorVars, serverVars>>

GenerateStarSchema ==
  /\ op = "generateStarSchema"
  /\ CanInvoke
  /\ result' = [starSchema |-> StarSchemaOf(args), sqlScript |-> SchemaSQLOf(args)]
  /\ outcome' = "returned"
  /\ earlier' = result
  /\ UNCHANGED <<op, args, database, orchestratorVars, serverVars>>

CreateDataWarehouseArchitecture ==
  \E now \in ClockReadings :
    /\ op = "createDataWarehouseArchitecture"
    /\ CanInvoke
    /\ result' = [dwName |-> args.dwName, layers |-> args.layers,
                  sqlScript |-> ArchitectureSQL(args.dwName, args.layers, now)]
    /\ outcome' = "returned"
    /\ earlier' = result
    /\ UNCHANGED <<op, args, database, orchestratorVars, serverVars>>

CreateDataQualityFramework ==
  /\ op = "createDataQualityFramework"
  /\ CanInvoke
  /\ result' = [qualityFramework |-> QualityFrameworkOf(args.rules),
                rules |-> [i \in 1..Len(args.rules) |-> args.rules[i].name]]
  /\ outcome' = "returned"
  /\ earlier' = result
  /\ UNCHANGED <<op, args, database, orchestratorVars, serverVars>>

\* A generated procedure is executed on a table: the two counts are taken
\* and the result row is inserted.
ExecuteDataQualityProcedure ==
  /\ op = "createDataQualityFramework"
  /\ outcome = "returned"
  /\ database.DataQualityResults = <<>>
  /\ \E k \in 2..Len(result.qualityFramework), rows \in SeqsUpTo(ColumnValues, MaxRows) :
       LET procedure == result.qualityFramework[k]
           totalCount == TotalCount(procedure.counts, rows)
           failCount == FailCount(procedure.counts, rows)
       IN database' =
            [table |-> rows,
             DataQualityResults |->
               <<[RuleName |-> procedure.ruleName,
                  TableName |-> procedure.table,
                  ColumnName |-> procedure.column,
                  Severity |-> procedure.severity,
                  Status |-> IF failCount = 0 THEN "Pass" ELSE "Fail",
                  RecordsChecked |-> totalCount,
                  RecordsFailed |-> failCount,
                  FailurePercentage |-> FailurePercentage(failCount, totalCount)]>>]
  /\ UNCHANGED <<op, args, outcome, result, earlier, orchestratorVars,
                 serverVars>>

ValidateStarSchema ==
  /\ op = "validateStarSchema"
  /\ CanInvoke
  /\ LET validationResults == ValidationResultsOf(args)
     IN result' = [validationResults |-> validationResults,
                   message |-> ValidationMessage(validationResults)]
  /\ outcome' = "returned"
  /\ earlier' = result
  /\ UNCHANGED <<op, args, database, orchestratorVars, serverVars>>

\* A tool has been called with arguments of its parameter types; the tools
\* read neither the Fabric token nor the workspace URL.
InitModeling ==
  /\ fabricToken = FALSE
  /\ workspaceUrl = FALSE
  /\ \/ op = "generateDimensionTable" /\ args \in GenerateDimensionTableCalls
     \/ op = "generateFactTable" /\ args \in GenerateFactTableCalls
     \/ op = "generateStarSchema" /\ args \in GenerateStarSchemaCalls
     \/ op = "validateStarSchema" /\ args \in StarSchemas \cup SynthesizedStarSchemas
     \/ /\ op = "createDataQualityFramework"
        /\ args \in [rules : SeqsUpTo(DataQualityRules, MaxRules)]
     \/ /\ op = "createDataWarehouseArchitecture"
        /\ args \in CreateDataWarehouseArchitectureCalls
  /\ outcome = "pending"
  /\ pipelineDefinition = NoDefinition
  /\ requests = <<>>
  /\ run = NoRun
  /\ loop = "none"
  /\ index = 0
  /\ awaiting = FALSE
  /\ deploymentResults = NoResults
  /\ attempts = <<>>
  /\ trigger = NoTrigger
  /\ result = NoResult
  /\ database = NoDatabase
  /\ earlier = NoResult
  /\ config = NoConfig
  /\ tools = NoTools
  /\ response = NoResponse

NextModeling ==
  \/ GenerateDimensionTable
  \/ GenerateFactTable
  \/ GenerateStarSchema
  \/ ValidateStarSchema
  \/ CreateDataQualityFramework
  \/ ExecuteDataQualityProcedure
  \/ CreateDataWarehouseArchitecture

SpecModeling == InitModeling /\ [][NextModeling]_vars

(***************************************************************************)
(* The server (src/index.ts): the tool objects made at start-up from the   *)
(* configuration, the ListTools handler and the CallTool handler.          *)
(***************************************************************************)

\* getConfig(): each setting is present or absent in the environment.
ConfigKeys ==
  {"subscriptionId", "storageAccountName", "dataLakeAccountName",
   "databricksToken", "databricksWorkspaceUrl", "synapseToken",
   "synapseWorkspaceUrl", "fabricToken", "fabricWorkspaceUrl"}

Configs == [ConfigKeys -> BOOLEAN]

\* The constructors that throw, and when: DataLakeTools and StorageTools
\* without their account name; DataFactoryTools, SqlDatabaseTools,
\* MonitorTools, DatabricksTools and SynapseTools without a subscription id.
ConstructorThrows(object, c) ==
  CASE object = "dataLakeTools" -> ~c.dataLakeAccountName
    [] object = "storageTools" -> ~c.storageAccountName
    [] object \in {"dataFactoryTools", "sqlDatabaseTools", "monitorTools",
                   "databricksTools", "synapseTools"} -> ~c.subscriptionId
    [] OTHER -> FALSE

\* The constructor calls of the try block, in order, each under its if.
ConstructorCalls(c) ==
  (IF c.dataLakeAccountName THEN <<"dataLakeTools">> ELSE <<>>)
  \o (IF c.storageAccountName THEN <<"storageTools">> ELSE <<>>)
  \o (IF c.subscriptionId
      THEN <<"fabricTools", "dataFactoryTools", "sqlDatabaseTools",
             "monitorTools">>
      ELSE <<>>)
  \o (IF c.databricksToken /\ c.databricksWorkspaceUrl
      THEN <<"databricksTools">> ELSE <<>>)
  \o (IF c.synapseToken /\ c.synapseWorkspaceUrl
      THEN <<"synapseTools">> ELSE <<>>)
  \o <<"dimensionalTools", "dataWarehouseTools">>
  \o (IF c.fabricToken /\ c.fabricWorkspaceUrl
      THEN <<"fabricPipelineTools">> ELSE <<>>)

\* try { ... } catch (error) { console.error(...) }: the objects assigned
\* before the first constructor that throws; the others stay null.
RECURSIVE Constructed(_, _)
Constructed(calls, c) ==
  IF calls = <<>> \/ ConstructorThrows(Head(calls), c) THEN {}
  ELSE {Head(calls)} \cup Constructed(Tail(calls), c)

InitialisedTools(c) == Constructed(ConstructorCalls(c), c)

\* ListTools: the names of the tools pushed for a tool object that is not
\* null. A name is the sequence of its words, which underscores separate.
ToolsPushed(object) ==
  CASE object = "dataLakeTools" ->
         {<<"datalake", "list", "filesystems">>,
          <<"datalake", "create", "filesystem">>,
          <<"datalake", "list", "files">>, <<"datalake", "read", "file">>,
          <<"datalake", "upload", "file">>, <<"datalake", "delete", "file">>,
          <<"datalake", "create", "directory">>}
    [] object = "storageTools" ->
         {<<"storage", "list", "containers">>,
          <<"storage", "create", "container">>,
          <<"storage", "delete", "container">>,
          <<"storage", "list", "blobs">>, <<"storage", "upload", "blob">>,
          <<"storage", "download", "blob">>, <<"storage", "delete", "blob">>,
          <<"storage", "get", "blob", "properties">>,
          <<"storage", "copy", "blob">>}
    [] object = "fabricTools" ->
         {<<"fabric", "list", "workspaces">>,
          <<"fabric", "get", "workspace">>, <<"fabric", "list", "datasets">>,
          <<"fabric", "list", "reports">>,
          <<"fabric", "list", "dashboards">>,
          <<"fabric", "list", "dataflows">>, <<"fabric", "get", "dataset">>,
          <<"fabric", "refresh", "dataset">>,
          <<"fabric", "get", "dataset", "refresh", "history">>,
          <<"fabric", "execute", "dax">>, <<"fabric", "list", "lakehouses">>,
          <<"fabric", "get", "lakehouse">>,
          <<"fabric", "list", "notebooks">>}
    [] object = "dataFactoryTools" ->
         {<<"datafactory", "list", "factories">>,
          <<"datafactory", "get", "factory">>,
          <<"datafactory", "list", "pipelines">>,
          <<"datafactory", "get", "pipeline">>,
          <<"datafactory", "create", "pipeline", "run">>,
          <<"datafactory", "get", "pipeline", "run">>,
          <<"datafactory", "cancel", "pipeline", "run">>}
    [] object = "sqlDatabaseTools" ->
         {<<"sql", "list", "servers">>, <<"sql", "get", "server">>,
          <<"sql", "list", "databases">>, <<"sql", "get", "database">>,
          <<"sql", "execute", "query">>}
    [] object = "databricksTools" ->
         {<<"databricks", "list", "workspaces">>,
          <<"databricks", "get", "workspace">>,
          <<"databricks", "list", "clusters">>,
          <<"databricks", "get", "cluster">>,
          <<"databricks", "start", "cluster">>,
          <<"databricks", "terminate", "cluster">>,
          <<"databricks", "list", "jobs">>, <<"databricks", "run", "job">>}
    [] object = "monitorTools" ->
         {<<"monitor", "list", "action", "groups">>,
          <<"monitor", "list", "metric", "alerts">>,
          <<"monitor", "query", "logs">>, <<"monitor", "get", "metrics">>}
    [] object = "synapseTools" ->
         {<<"synapse", "list", "workspaces">>,
          <<"synapse", "get", "workspace">>,
          <<"synapse", "list", "sql", "pools">>,
          <<"synapse", "pause", "sql", "pool">>,
          <<"synapse", "resume", "sql", "pool">>,
          <<"synapse", "list", "pipelines">>,
          <<"synapse", "create", "pipeline", "run">>}
    [] object = "dimensionalTools" ->
         {<<"dimensional", "generate", "dimension">>,
          <<"dimensional", "generate", "fact">>,
          <<"dimensional", "generate", "star", "schema">>,
          <<"dimensional", "validate", "star", "schema">>}
    [] object = "fabricPipelineTools" ->
         {<<"fabric", "create", "data", "pipeline">>,
          <<"fabric", "create", "dimension", "load", "pipeline">>,
          <<"fabric", "create", "fact", "load", "pipeline">>,
          <<"fabric", "create", "star", "schema", "etl">>,
          <<"fabric", "create", "scheduled", "pipeline">>}
    [] object = "dataWarehouseTools" ->
         {<<"dw", "create", "architecture">>,
          <<"dw", "generate", "standard", "dimensions">>,
          <<"dw", "create", "data", "quality", "framework">>,
          <<"dw", "generate", "data", "catalog">>,
          <<"dw", "generate", "data", "marts">>}

\* CallTool: the case labels of the switch of a tool object's block.
CaseNames(object) ==
  CASE object = "dataLakeTools" ->
         {<<"datalake", "list", "filesystems">>,
          <<"datalake", "create", "filesystem">>,
          <<"datalake", "list", "files">>, <<"datalake", "read", "file">>,
          <<"datalake", "upload", "file">>, <<"datalake", "delete", "file">>,
          <<"datalake", "create", "directory">>}
    [] object = "storageTools" ->
         {<<"storage", "list", "containers">>,
          <<"storage", "create", "container">>,
          <<"storage", "delete", "container">>,
          <<"storage", "list", "blobs">>, <<"storage", "upload", "blob">>,
          <<"storage", "download", "blob">>, <<"storage", "delete", "blob">>,
          <<"storage", "get", "blob", "properties">>,
          <<"storage", "copy", "blob">>}
    [] object = "fabricTools" ->
         {<<"fabric", "list", "workspaces">>,
          <<"fabric", "get", "workspace">>, <<"fabric", "list", "datasets">>,
          <<"fabric", "list", "reports">>,
          <<"fabric", "list", "dashboards">>,
          <<"fabric", "list", "dataflows">>, <<"fabric", "get", "dataset">>,
          <<"fabric", "refresh", "dataset">>,
          <<"fabric", "get", "dataset", "refresh", "history">>,
          <<"fabric", "execute", "dax">>, <<"fabric", "list", "lakehouses">>,
          <<"fabric", "get", "lakehouse">>,
          <<"fabric", "list", "notebooks">>}
    [] object = "dataFactoryTools" ->
         {<<"datafactory", "list", "factories">>,
          <<"datafactory", "get", "factory">>,
          <<"datafactory", "list", "pipelines">>,
          <<"datafactory", "get", "pipeline">>,
          <<"datafactory", "create", "pipeline", "run">>,
          <<"datafactory", "get", "pipeline", "run">>,
          <<"datafactory", "cancel", "pipeline", "run">>}
    [] object = "sqlDatabaseTools" ->
         {<<"sql", "list", "servers">>, <<"sql", "get", "server">>,
          <<"sql", "list", "databases">>, <<"sql", "get", "database">>,
          <<"sql", "execute", "query">>}
    [] object = "databricksTools" ->
         {<<"databricks", "list", "workspaces">>,
          <<"databricks", "get", "workspace">>,
          <<"databricks", "list", "clusters">>,
          <<"databricks", "get", "cluster">>,
          <<"databricks", "start", "cluster">>,
          <<"databricks", "terminate", "cluster">>,
          <<"databricks", "list", "jobs">>, <<"databricks", "run", "job">>}
    [] object = "monitorTools" ->
         {<<"monitor", "list", "action", "groups">>,
          <<"monitor", "list", "metric", "alerts">>,
          <<"monitor", "query", "logs">>, <<"monitor", "get", "metrics">>}
    [] object = "synapseTools" ->
         {<<"synapse", "list", "workspaces">>,
          <<"synapse", "get", "workspace">>,
          <<"synapse", "list", "sql", "pools">>,
          <<"synapse", "pause", "sql", "pool">>,
          <<"synapse", "resume", "sql", "pool">>,
          <<"synapse", "list", "pipelines">>,
          <<"synapse", "create", "pipeline", "run">>}
    [] object = "dimensionalTools" ->
         {<<"dimensional", "generate", "dimension">>,
          <<"dimensional", "generate", "fact">>,
          <<"dimensional", "generate", "star", "schema">>,
          <<"dimensional", "validate", "star", "schema">>}
    [] object = "fabricPipelineTools" ->
         {<<"fabric", "create", "data", "pipeline">>,
          <<"fabric", "create", "dimension", "load", "pipeline">>,
          <<"fabric", "create", "fact", "load", "pipeline">>,
          <<"fabric", "create", "star", "schema", "etl">>,
          <<"fabric", "create", "scheduled", "pipeline">>}
    [] object = "dataWarehouseTools" ->
         {<<"dw", "create", "architecture">>,
          <<"dw", "generate", "standard", "dimensions">>,
          <<"dw", "create", "data", "quality", "framework">>,
          <<"dw", "generate", "data", "catalog">>,
          <<"dw", "generate", "data", "marts">>}

\* CallTool: the blocks in order, each under name.startsWith(prefix) && object.
\* The prefix 'fabric_create_' is <<"fabric", "create">>.
Blocks ==
  <<[prefix |-> <<"datalake">>, object |-> "dataLakeTools"],
    [prefix |-> <<"storage">>, object |-> "storageTools"],
    [prefix |-> <<"fabric">>, object |-> "fabricTools"],
    [prefix |-> <<"datafactory">>, object |-> "dataFactoryTools"],
    [prefix |-> <<"sql">>, object |-> "sqlDatabaseTools"],
    [prefix |-> <<"databricks">>, object |-> "databricksTools"],
    [prefix |-> <<"monitor">>, object |-> "monitorTools"],
    [prefix |-> <<"synapse">>, object |-> "synapseTools"],
    [prefix |-> <<"dimensional">>, object |-> "dimensionalTools"],
    [prefix |-> <<"fabric", "create">>, object |-> "fabricPipelineTools"],
    [prefix |-> <<"dw">>, object |-> "dataWarehouseTools"]>>

ToolObjects == {Blocks[k].object : k \in 1..Len(Blocks)}

\* ListTools: the tools of every tool object that is not null.
ListedTools_All(objects) == UNION {ToolsPushed(object) : object \in ToolObjects}

ListedTools(objects) == UNION {ToolsPushed(object) : object \in objects}

\* name.startsWith(prefix), the prefix ending with an underscore.
StartsWith(name, prefix) ==
  /\ Len(name) > Len(prefix)
  /\ SubSeq(name, 1, Len(prefix)) = prefix

\* The tool object whose block returns for the name: the first block whose
\* condition holds and whose switch has the name as a case; a block without
\* such a case falls through to the next. "none" when no block returns.
RECURSIVE HandlerOf(_, _, _)
HandlerOf(blocks, name, objects) ==
  IF blocks = <<>> THEN "none"
  ELSE IF /\ StartsWith(name, Head(blocks).prefix)
          /\ Head(blocks).object \in objects
          /\ name \in CaseNames(Head(blocks).object)
       THEN Head(blocks).object
       ELSE HandlerOf(Tail(blocks), name, objects)

\* The names of the requests: every tool of the server, and names that
\* begin like tools without being one.
RequestedNames ==
  ListedTools(ToolObjects)
  \cup UNION {CaseNames(object) : object \in ToolObjects}
  \cup {<<"unknown", "tool">>, <<"dimensional", "unknown">>,
        <<"fabric", "create", "unknown">>, <<"fabric">>, <<"dw">>}

\* ListTools: no handler throws here.
ListTools ==
  /\ op = "ListTools"
  /\ outcome = "pending"
  /\ response' = [kind |-> "tools", tools |-> ListedTools(tools), name |-> <<>>,
                  handler |-> "none", isError |-> FALSE, text |-> ""]
  /\ outcome' = "returned"
  /\ UNCHANGED <<op, args, result, database, earlier, config, tools,
                 orchestratorVars>>

\* CallTool: the handler reached returns or throws; what is thrown inside
\* the try, the 'Unknown tool' error included, is answered with isError.
CallTool ==
  /\ op = "CallTool"
  /\ outcome = "pending"
  /\ \E handlerThrows \in BOOLEAN :
       LET handler == HandlerOf(Blocks, args.name, tools)
       IN response' =
            [kind |-> "call", tools |-> {}, name |-> args.name,
             handler |-> handler,
             isError |-> handler = "none" \/ handlerThrows,
             text |-> IF handler = "none" THEN "Error: Unknown tool: <name>"
                      ELSE IF handlerThrows THEN "Error: <message>"
                      ELSE "<result>"]
  /\ outcome' = "returned"
  /\ UNCHANGED <<op, args, result, database, earlier, config, tools,
                 orchestratorVars>>

\* The module has been loaded: the tool objects are made from the
\* configuration; the orchestrator, if made, has the token and the URL. A
\* request has arrived.
InitServer ==
  /\ config \in Configs
  /\ tools = InitialisedTools(config)
  /\ response = NoResponse
  /\ fabricToken = ("fabricPipelineTools" \in tools)
  /\ workspaceUrl = ("fabricPipelineTools" \in tools)
  /\ \/ op = "ListTools" /\ args = <<>>
     \/ op = "CallTool" /\ args \in [name : RequestedNames]
  /\ outcome = "pending"
  /\ pipelineDefinition = NoDefinition
  /\ requests = <<>>
  /\ run = NoRun
  /\ loop = "none"
  /\ index = 0
  /\ awaiting = FALSE
  /\ deploymentResults = NoResults
  /\ attempts = <<>>
  /\ trigger = NoTrigger
  /\ result = NoResult
  /\ database = NoDatabase
  /\ earlier = NoResult

NextServer ==
  \/ ListTools
  \/ CallTool

SpecServer == InitServer /\ [][NextServer]_vars

(***************************************************************************)
(* Properties.                                                             *)
(***************************************************************************)

BuilderOps == {"createDimensionLoadPipeline", "createFactLoadPipeline",
               "createMasterPipeline", "createStarSchemaETLPipeline"}

Activities == pipelineDefinition.activities

Range(s) == {s[k] : k \in 1..Len(s)}

\* The names an activity of the definition depends on.
DependsOnSet(activity) ==
  IF activity.dependsOn = None THEN {} ELSE Range(activity.dependsOn[1])

\* C1: in every definition a builder emits, every name in an activity's
\* dependsOn is the name of an activity strictly earlier in the list, and of
\* no activity at or after it (no self or forward reference).
C1_DependsOnEarlierOnly ==
  op \in BuilderOps =>
    \A i \in 1..Len(Activities) :
      \A d \in DependsOnSet(Activities[i]) :
        /\ \E j \in 1..(i - 1) : Activities[j].name = d
        /\ \A j \in i..Len(Activities) : Activities[j].name # d

\* C2: in every definition a builder emits, activity names are pairwise
\* distinct.
C2_ActivityNamesDistinct ==
  op \in BuilderOps =>
    \A i, j \in 1..Len(Activities) :
      i # j => Activities[i].name # Activities[j].name

IsDeploy == op = "deployPipelinePackage"

StartEvent(kind, i) == [ev |-> "start", kind |-> kind, index |-> i]

EndEvents(kind, i) ==
  {[ev |-> "end", kind |-> kind, index |-> i, ok |-> ok] : ok \in BOOLEAN}

\* C3: every dataflow's attempt has ended before the first pipeline's attempt
\* starts, attempts do not overlap, and they start in input order, dataflows
\* first.
C3_DataFlowsBeforePipelines ==
  IsDeploy =>
    /\ \A e \in 1..Len(attempts) :
         attempts[e] \in {StartEvent("pipelines", i) : i \in 1..Len(args.pipelines)}
           => \A i \in 1..Len(args.dataFlows) :
                \E f \in 1..(e - 1) : attempts[f] \in EndEvents("dataFlows", i)
    /\ \A e \in 1..Len(attempts) :
         IF e % 2 = 1
         THEN LET k == (e + 1) \div 2
              IN attempts[e] =
                   IF k <= Len(args.dataFlows)
                   THEN StartEvent("dataFlows", k)
                   ELSE StartEvent("pipelines", k - Len(args.dataFlows))
         ELSE attempts[e] \in EndEvents(attempts[e - 1].kind, attempts[e - 1].index)

\* A failed dataflow attempt has ended and a pipeline attempt has started.
C3_Witness ==
  /\ IsDeploy
  /\ \E e \in 1..Len(attempts) :
       /\ attempts[e].ev = "start" /\ attempts[e].kind = "pipelines"
       /\ \E f \in 1..(e - 1) :
            attempts[f] = [ev |-> "end", kind |-> "dataFlows", index |-> 1, ok |-> FALSE]
  /\ Len(args.dataFlows) >= 2

StartsOf(kind, i) == {e \in 1..Len(attempts) : attempts[e] = StartEvent(kind, i)}

\* C4: the batch is never aborted: the call never raises, no item is attempted
\* twice, and when it returns every dataflow and every pipeline of the input
\* has been attempted exactly once.
C4_EveryItemAttemptedOnce ==
  IsDeploy =>
    /\ outcome # "raised"
    /\ \A kind \in {"dataFlows", "pipelines"} :
         \A i \in 1..Len(Items(kind)) :
           /\ Cardinality(StartsOf(kind, i)) <= 1
           /\ outcome = "returned" => Cardinality(StartsOf(kind, i)) = 1

\* The call has returned although the first item failed, with items after it.
C4_Witness ==
  /\ IsDeploy
  /\ outcome = "returned"
  /\ Len(attempts) >= 6
  /\ attempts[2].ok = FALSE
  /\ \E e \in 3..Len(attempts) : attempts[e].ev = "end" /\ attempts[e].ok

AttemptOk(kind, i) ==
  [ev |-> "end", kind |-> kind, index |-> i, ok |-> TRUE] \in Range(attempts)

AttemptFailed(kind, i) ==
  [ev |-> "end", kind |-> kind, index |-> i, ok |-> FALSE] \in Range(attempts)

\* The names of the first n items of a kind whose attempt succeeded, in order.
RECURSIVE SucceededNames(_, _)
SucceededNames(kind, n) ==
  IF n = 0 THEN <<>>
  ELSE SucceededNames(kind, n - 1)
       \o (IF AttemptOk(kind, n) THEN <<Items(kind)[n]>> ELSE <<>>)

\* The error entries of the first n items of a kind whose attempt failed.
RECURSIVE FailedEntries(_, _)
FailedEntries(kind, n) ==
  IF n = 0 THEN <<>>
  ELSE FailedEntries(kind, n - 1)
       \o (IF AttemptFailed(kind, n)
           THEN <<(IF kind = "dataFlows" THEN "Failed to deploy data flow "
                                         ELSE "Failed to deploy pipeline ")
                  \o Items(kind)[n] \o ": " \o ItemError(kind)>>
           ELSE <<>>)

IsStar == op = "createStarSchemaETLPipeline"

NDim == Len(args.dimensionPipelines)
NFact == Len(args.factPipelines)

\* C7: in the star-schema ETL graph no dimension activity has a dependency,
\* every fact activity depends on exactly the set of dimension activity
\* names, and the quality check on exactly the set of fact activity names.
C7_StarDependencies ==
  IsStar =>
    /\ Len(Activities) >= NDim + NFact + 1
    /\ \A i \in 1..NDim : Activities[i].dependsOn = None
    /\ \A i \in 1..NFact :
         /\ Activities[NDim + i].dependsOn # None
         /\ DependsOnSet(Activities[NDim + i])
              = {Activities[j].name : j \in 1..NDim}
    /\ Activities[NDim + NFact + 1].dependsOn # None
    /\ DependsOnSet(Activities[NDim + NFact + 1])
         = {Activities[NDim + j].name : j \in 1..NFact}

\* A star-schema graph with two different dimension pipelines and a fact.
C7_Witness ==
  /\ IsStar
  /\ NDim = 2
  /\ args.dimensionPipelines[1] # args.dimensionPipelines[2]
  /\ NFact >= 1
  /\ Cardinality(DependsOnSet(Activities[NDim + 1])) = 2

\* C8: the star-schema ETL graph has |dimensionPipelines| + |factPipelines|
\* + 1 nodes: an Execute node per dimension pipeline, an Execute node per fact
\* pipeline, and the Lookup quality check last.
C8_StarNodeCount ==
  IsStar =>
    /\ Len(Activities) = NDim + NFact + 1
    /\ \A i \in 1..NDim :
         /\ Activities[i].type = "Execute"
         /\ Activities[i].name = "Load_" \o args.dimensionPipelines[i]
    /\ \A i \in 1..NFact :
         /\ Activities[NDim + i].type = "Execute"
         /\ Activities[NDim + i].name = "Load_" \o args.factPipelines[i]
    /\ Activities[Len(Activities)].type = "Lookup"
    /\ Activities[Len(Activities)].name = "DataQualityCheck"

\* A star-schema graph of five nodes.
C8_Witness ==
  /\ IsStar
  /\ NDim = 2
  /\ NFact = 2
  /\ Len(Activities) = 5

Started(i) == run.status[i] # "Pending"
Completed(i) == run.status[i] \in {"Succeeded", "Failed"}

\* C9: in a run of the star-schema ETL graph no fact load has started unless
\* every dimension load has completed, and the quality check has not started
\* unless every fact load has completed.
C9_DimensionsBeforeFacts ==
  (IsStar /\ Len(run.activities) = NDim + NFact + 1) =>
    /\ \A f \in (NDim + 1)..(NDim + NFact) :
         Started(f) => \A d \in 1..NDim : Completed(d)
    /\ Started(NDim + NFact + 1)
         => \A f \in (NDim + 1)..(NDim + NFact) : Completed(f)

\* The quality check has started in a run with two dimension loads and a
\* fact load.
C9_Witness ==
  /\ IsStar
  /\ Len(run.activities) = NDim + NFact + 1
  /\ NDim = 2
  /\ NFact >= 1
  /\ Started(NDim + NFact + 1)

IsMaster == op = "createMasterPipeline"

\* C10: the master pipeline has one Execute activity per child, in input
\* order; with sequential = true the first has no dependency and every other
\* depends on exactly its predecessor; otherwise (false, or left out) none
\* has a dependency.
C10_MasterChain ==
  IsMaster =>
    /\ Len(Activities) = Len(args.childPipelines)
    /\ \A i \in 1..Len(Activities) :
         /\ Activities[i].type = "Execute"
         /\ Activities[i].name = "Execute_" \o args.childPipelines[i]
         /\ DependsOnSet(Activities[i]) =
              IF args.sequential = Some(TRUE) /\ i > 1
              THEN {Activities[i - 1].name}
              ELSE {}

\* A sequential master pipeline of two children.
C10_Witness ==
  /\ IsMaster
  /\ args.sequential = Some(TRUE)
  /\ Len(args.childPipelines) = 2
  /\ Activities[2].dependsOn = Some(<<"Execute_" \o args.childPipelines[1]>>)

\* The latest call is a builder call whose list arguments are all empty.
EmptyListInput ==
  \/ IsMaster /\ args.childPipelines = <<>>
  \/ op = "createFactLoadPipeline" /\ args.dimensionMappings = <<>>
  \/ IsStar /\ args.dimensionPipelines = <<>> /\ args.factPipelines = <<>>

IsSchedule == op = "createScheduledPipeline"

\* C12: createScheduledPipeline issues the PUT of trigger tr_<pipelineName>_
\* Schedule and then the POST that starts that trigger; the start is issued
\* only once the PUT has succeeded and never after the PUT failed; the call
\* returns only when both requests succeeded; the trigger body references the
\* given pipeline and its timeZone is UTC when the caller gives none.
C12_UpsertThenStart ==
  IsSchedule =>
    LET upsert == [method |-> "PUT",
                   endpoint |-> "triggers/tr_" \o args.pipelineName \o "_Schedule"]
        start == [method |-> "POST",
                  endpoint |-> "triggers/tr_" \o args.pipelineName
                               \o "_Schedule/start"]
        body == trigger.triggerBody[1]
    IN /\ requests \in {<<>>, <<upsert>>, <<upsert, start>>}
       /\ start \in Range(requests) =>
            (Len(trigger.responses) >= 1 /\ trigger.responses[1])
       /\ (Len(trigger.responses) >= 1 /\ ~trigger.responses[1]) =>
            (start \notin Range(requests) /\ outcome = "raised")
       /\ outcome = "returned" =>
            (requests = <<upsert, start>> /\ trigger.responses = <<TRUE, TRUE>>)
       /\ body.pipelines = <<[referenceName |-> args.pipelineName,
                              type |-> "PipelineReference"]>>
       /\ args.schedule.timeZone = None => body.recurrence.timeZone = "UTC"

\* A schedule given without time zone has been upserted and started.
C12_Witness ==
  /\ IsSchedule
  /\ outcome = "returned"
  /\ args.schedule.timeZone = None
  /\ Len(requests) = 2

IsFactLoad == op = "createFactLoadPipeline"

NMap == Len(args.dimensionMappings)

\* C13: the fact-load graph has one Lookup activity per dimension mapping,
\* none with a dependency, then the DataFlow transform depending on exactly
\* the set of lookup activity names, then the Copy load depending on exactly
\* the transform; in a run the transform has not started unless every lookup
\* has completed, and the load has not started unless the transform has
\* completed.
C13_FactLoadGraph ==
  IsFactLoad =>
    /\ Len(Activities) = NMap + 2
    /\ \A i \in 1..NMap :
         /\ Activities[i].type = "Lookup"
         /\ Activities[i].name = "Lookup" \o args.dimensionMappings[i].dimension
         /\ DependsOnSet(Activities[i]) = {}
    /\ Activities[NMap + 1].type = "DataFlow"
    /\ DependsOnSet(Activities[NMap + 1]) = {Activities[i].name : i \in 1..NMap}
    /\ Activities[NMap + 2].type = "Copy"
    /\ DependsOnSet(Activities[NMap + 2]) = {Activities[NMap + 1].name}
    /\ Len(run.activities) = NMap + 2 =>
         /\ Started(NMap + 1) => \A i \in 1..NMap : Completed(i)
         /\ Started(NMap + 2) => Completed(NMap + 1)

\* The load has started in a run of a fact-load graph with two different
\* dimension mappings.
C13_Witness ==
  /\ IsFactLoad
  /\ NMap = 2
  /\ args.dimensionMappings[1] # args.dimensionMappings[2]
  /\ Len(run.activities) = NMap + 2
  /\ Started(NMap + 2)

\* A call of a dimensional modeling tool has returned.
Returned(tool) == op = tool /\ outcome = "returned"

ColumnNames(columns) == {columns[i].name : i \in 1..Len(columns)}

\* C14: a dimension table generated with scdType 2, given or by default, has
\* columns named EffectiveDate, ExpiryDate, IsCurrent, RecordVersion,
\* CreatedDate, ModifiedDate, CreatedBy and ModifiedBy, whatever columns the
\* caller gave.
C14_SCD2ColumnsPresent ==
  (Returned("generateDimensionTable")
   /\ args.options.scdType \in {None, Some(2)}) =>
    {EffectiveDate, ExpiryDate, IsCurrent, RecordVersion,
     CreatedDate, ModifiedDate, CreatedBy, ModifiedBy}
      \subseteq ColumnNames(result.dimensionTable.columns)

\* A dimension table generated with the default scdType and two caller
\* columns.
C14_Witness ==
  /\ Returned("generateDimensionTable")
  /\ args.options.scdType = None
  /\ Len(args.columns) = 2
  /\ Len(result.dimensionTable.columns) = 11

\* C15: every generated dimension table has exactly one column flagged as
\* primary key, and that column is named as the table's surrogateKey.
C15_OnePrimaryKeyColumn ==
  Returned("generateDimensionTable") =>
    LET columns == result.dimensionTable.columns
    IN /\ Cardinality({i \in 1..Len(columns) : columns[i].isPrimaryKey}) = 1
       /\ \A i \in 1..Len(columns) :
            columns[i].isPrimaryKey
              => columns[i].name = result.dimensionTable.surrogateKey

\* C16: the dimensionKeys of a generated fact table are the caller's list,
\* element for element and in order, also when DateKey is added as a column.
C16_DimensionKeysVerbatim ==
  Returned("generateFactTable") =>
    result.factTable.dimensionKeys = args.dimensionKeys

\* A fact table generated from two dimension keys without DateKey: the
\* DateKey column has been added.
C16_Witness ==
  /\ Returned("generateFactTable")
  /\ Len(args.dimensionKeys) = 2
  /\ args.dimensionKeys[1] # args.dimensionKeys[2]
  /\ \A i \in 1..2 : args.dimensionKeys[i] # DateKey
  /\ DateKey \in ColumnNames(result.factTable.columns)

\* C17: exactly one column of every generated fact table is named DateKey.
C17_OneDateKeyColumn ==
  Returned("generateFactTable") =>
    LET columns == result.factTable.columns
    IN Cardinality({i \in 1..Len(columns) : columns[i].name = DateKey}) = 1

\* C18: the report of validateStarSchema has isValid = TRUE exactly when its
\* errors list is empty, whatever its warnings are.
C18_ValidIffNoErrors ==
  Returned("validateStarSchema") =>
    (result.validationResults.isValid <=> result.validationResults.errors = <<>>)

\* A schema has been found valid with two warnings.
C18_Witness ==
  /\ Returned("validateStarSchema")
  /\ result.validationResults.isValid
  /\ Len(result.validationResults.warnings) = 2
  /\ result.validationResults.errors = <<>>

\* The key without its trailing "Key", the key itself when it has none.
StripTrailingKey(dimKey) ==
  IF Len(dimKey) >= Len(Key)
     /\ SubSeq(dimKey, Len(dimKey) - Len(Key) + 1, Len(dimKey)) = Key
  THEN SubSeq(dimKey, 1, Len(dimKey) - Len(Key))
  ELSE dimKey

\* No dimension is named as the key without its trailing "Key", letter case
\* left aside.
Unresolved(dimKey) ==
  \A i \in 1..Len(args.dimensionTables) :
    ToLowerCase(args.dimensionTables[i].name) # ToLowerCase(StripTrailingKey(dimKey))

\* The errors the first n dimension keys are to give, in order.
RECURSIVE UnresolvedKeyErrors(_)
UnresolvedKeyErrors(n) ==
  IF n = 0 THEN <<>>
  ELSE UnresolvedKeyErrors(n - 1)
       \o (IF Unresolved(args.factTable.dimensionKeys[n])
           THEN <<<<"Fact table references dimension ",
                    StripTrailingKey(args.factTable.dimensionKeys[n]),
                    " which is not defined">>>>
           ELSE <<>>)

IsReferenceError(error) == error[1] = "Fact table references dimension "

\* C19: the report holds one error per dimension key of which the name
\* without its trailing "Key" is, letter case aside, no dimension's name; the
\* error names that dimension, and isValid is FALSE; the other keys give no
\* error.
C19_TrailingKeyResolved ==
  Returned("validateStarSchema") =>
    /\ SelectSeq(result.validationResults.errors, IsReferenceError)
         = UnresolvedKeyErrors(Len(args.factTable.dimensionKeys))
    /\ (\E i \in 1..Len(args.factTable.dimensionKeys) :
          Unresolved(args.factTable.dimensionKeys[i]))
         => ~result.validationResults.isValid

\* The dimension lacks one of EffectiveDate, ExpiryDate, IsCurrent.
LacksSCDColumn(dim) ==
  {EffectiveDate, ExpiryDate, IsCurrent} \ ColumnNames(dim.columns) # {}

\* The errors the first n dimensions are to give, in order.
RECURSIVE MissingSCDColumnErrors(_)
MissingSCDColumnErrors(n) ==
  IF n = 0 THEN <<>>
  ELSE MissingSCDColumnErrors(n - 1)
       \o (IF args.dimensionTables[n].scdType = 2
              /\ LacksSCDColumn(args.dimensionTables[n])
           THEN <<<<"SCD Type 2 dimension ", args.dimensionTables[n].name,
                    " is missing required SCD columns">>>>
           ELSE <<>>)

IsSCDError(error) == error[1] = "SCD Type 2 dimension "

\* C20: the report holds one missing-SCD-columns error per dimension of
\* scdType 2 that lacks one of EffectiveDate, ExpiryDate, IsCurrent, and then
\* isValid is FALSE; a dimension of type 1 or 3, or of type 2 with the three
\* columns, gives no such error.
C20_SCD2ColumnsRequired ==
  Returned("validateStarSchema") =>
    /\ SelectSeq(result.validationResults.errors, IsSCDError)
         = MissingSCDColumnErrors(Len(args.dimensionTables))
    /\ MissingSCDColumnErrors(Len(args.dimensionTables)) # <<>>
         => ~result.validationResults.isValid

\* A type-2 dimension without IsCurrent has been reported.
C20_Witness ==
  /\ Returned("validateStarSchema")
  /\ Len(args.dimensionTables) = 1
  /\ args.dimensionTables[1].scdType = 2
  /\ IsCurrent \notin ColumnNames(args.dimensionTables[1].columns)
  /\ EffectiveDate \in ColumnNames(args.dimensionTables[1].columns)
  /\ Len(result.validationResults.errors) = 1
  /\ ~result.validationResults.isValid

\* C21: the rules of validateStarSchema are applied independently: the
\* errors list holds one entry per unresolved fact dimension key plus one per
\* type-2 dimension lacking a required column, the warnings list one entry
\* when the fact table has no measure plus one per dimension with an empty
\* natural key.
C21_RulesIndependent ==
  Returned("validateStarSchema") =>
    LET dimensionKeys == args.factTable.dimensionKeys
        dimensionTables == args.dimensionTables
    IN /\ Len(result.validationResults.errors)
            = Cardinality({i \in 1..Len(dimensionKeys) : Unresolved(dimensionKeys[i])})
              + Cardinality({i \in 1..Len(dimensionTables) :
                               /\ dimensionTables[i].scdType = 2
                               /\ LacksSCDColumn(dimensionTables[i])})
       /\ Len(result.validationResults.warnings)
            = (IF args.factTable.measures = <<>> THEN 1 ELSE 0)
              + Cardinality({i \in 1..Len(dimensionTables) :
                               dimensionTables[i].naturalKey = <<>>})

Kinds(script) == [i \in 1..Len(script) |-> script[i].kind]

Repeat(x, n) == [i \in 1..n |-> x]

SCD2Positions(dimensionTables) ==
  {i \in 1..Len(dimensionTables) : dimensionTables[i].scdType = 2}

\* C22: the script of generateStarSchema is made of the schema creation,
\* the DDL of every dimension in input order, the fact DDL, the view exactly
\* when generateViews is true or left out, and then a procedure for every
\* dimension of SCD type 2, in input order, and for no other dimension.
C22_ScriptSectionOrder ==
  Returned("generateStarSchema") =>
    LET script == result.sqlScript
        dims == args.dimensionTables
        n == Len(dims)
        views == IF args.options.generateViews = Some(FALSE) THEN 0 ELSE 1
        procedures == SubSeq(script, n + 2 + views + 1, Len(script))
    IN /\ Len(script) = 1 + n + 1 + views + Cardinality(SCD2Positions(dims))
       /\ Kinds(script) = <<"schema">> \o Repeat("dimension", n) \o <<"fact">>
                          \o Repeat("view", views)
                          \o Repeat("procedure", Cardinality(SCD2Positions(dims)))
       /\ script[1].name = args.schemaName
       /\ \A i \in 1..n : script[1 + i].name = dims[i].name
       /\ script[n + 2].name = args.factTable.name
       /\ \A k \in 1..Len(procedures) :
            \E i \in SCD2Positions(dims) :
              /\ procedures[k].name = dims[i].name
              /\ Cardinality({j \in SCD2Positions(dims) : j <= i}) = k

\* A script with the view by default and a procedure for the second of two
\* dimensions, the first being of type 1.
C22_Witness ==
  /\ Returned("generateStarSchema")
  /\ args.options.generateViews = None
  /\ Len(args.dimensionTables) = 2
  /\ args.dimensionTables[1].scdType = 1
  /\ args.dimensionTables[2].scdType = 2
  /\ Kinds(result.sqlScript) = <<"schema", "dimension", "dimension", "fact",
                                 "view", "procedure">>

\* The rows the executed procedures have put in DataQualityResults.
ResultRows ==
  {database.DataQualityResults[i] : i \in 1..Len(database.DataQualityResults)}

\* C23 as stated: the failure percentage of every inserted result row equals
\* FailCount * 100 / TotalCount when TotalCount > 0, and 0 when TotalCount = 0.
C23_ExactPercentage ==
  \A row \in ResultRows :
    IF row.RecordsChecked > 0
    THEN row.FailurePercentage * row.RecordsChecked = row.RecordsFailed * 10000
    ELSE row.FailurePercentage = 0

\* C23: the failure percentage of every inserted result row is
\* FailCount * 100 / TotalCount rounded to two decimal places when
\* TotalCount > 0 (the column is DECIMAL(5,2)), and 0 when TotalCount = 0.
C23_RoundedPercentage ==
  \A row \in ResultRows :
    IF row.RecordsChecked > 0
    THEN LET difference == row.FailurePercentage * row.RecordsChecked
                             - row.RecordsFailed * 10000
         IN /\ -row.RecordsChecked <= 2 * difference
            /\ 2 * difference <= row.RecordsChecked
    ELSE row.FailurePercentage = 0

\* A row whose percentage had to be rounded up: two failed rows of three.
C23_Witness ==
  \E row \in ResultRows :
    /\ row.RecordsChecked = 3
    /\ row.RecordsFailed = 2
    /\ row.FailurePercentage = 6667

\* The rows of the checked table whose value lies outside the caller's
\* bounds, an absent bound being 0 for the minimum and 999999 for the maximum.
OutOfCallerBounds(rule) ==
  LET a == OrElse_UndefinedOnly(ParameterOf(rule.parameters, "minValue"), 0)
      b == OrElse_UndefinedOnly(ParameterOf(rule.parameters, "maxValue"), 999999)
  IN {i \in 1..Len(database.table) :
        /\ database.table[i] # Null
        /\ ~(a <= database.table[i][1] /\ database.table[i][1] <= b)}

\* C26: the procedure of a Range rule counts as failed exactly the rows whose
\* value is not between the caller's minValue and maxValue, whatever numbers
\* they are (0 included); an absent bound is 0 or 999999.
C26_RangeBoundsVerbatim ==
  op = "createDataQualityFramework" =>
    \A row \in ResultRows : \A k \in 1..Len(args.rules) :
      (args.rules[k].name = row.RuleName /\ args.rules[k].ruleType = "Range")
        => row.RecordsFailed = Cardinality(OutOfCallerBounds(args.rules[k]))

\* C27: validateStarSchema on a star schema composed of tables that
\* generateDimensionTable returned and of a fact table that generateFactTable
\* returned for the keys <dimension name>Key reports isValid = true and no
\* error.
C27_SynthesisThenValidation ==
  (Returned("validateStarSchema") /\ args \in SynthesizedStarSchemas) =>
    /\ result.validationResults.isValid
    /\ result.validationResults.errors = <<>>

\* The views of a script (one at most).
ViewsOf(script) == {script[k] : k \in {k \in 1..Len(script) : script[k].kind = "view"}}

\* C28: when validateStarSchema finds the star schema of generateStarSchema
\* valid, every fact column the view joins on is one of the fact table's
\* dimensionKeys.
C28_JoinKeysDeclared ==
  (Returned("generateStarSchema")
     /\ ValidationResultsOf(result.starSchema).isValid) =>
    \A view \in ViewsOf(result.sqlScript) : \A j \in 1..Len(view.joins) :
      \E k \in 1..Len(result.starSchema.factTable.dimensionKeys) :
        result.starSchema.factTable.dimensionKeys[k] = view.joins[j].joinKey

\* The fact table's alias in the view.
FactAlias == <<"f">>

\* C29: in the view of generateStarSchema dimension tables with distinct
\* names have distinct aliases, and no dimension's alias is the fact table's
\* alias f.
C29_AliasesDistinct ==
  Returned("generateStarSchema") =>
    \A view \in ViewsOf(result.sqlScript) :
      /\ \A i, j \in 1..Len(view.joins) :
           view.joins[i].table # view.joins[j].table
             => view.joins[i].alias # view.joins[j].alias
      /\ \A i \in 1..Len(view.joins) : view.joins[i].alias # FactAlias

\* The tools of the two classes that the model follows.
PureTools ==
  {"generateDimensionTable", "generateFactTable", "generateStarSchema",
   "validateStarSchema", "createDataQualityFramework",
   "createDataWarehouseArchitecture"}

\* C25: two calls of a tool with equal arguments return equal results.
C25_EqualArgumentsEqualResults ==
  (op \in PureTools /\ outcome = "returned" /\ earlier # NoResult) =>
    result = earlier

\* The dimensional_* and dw_* tools.
AlwaysAvailableTools ==
  ToolsPushed("dimensionalTools") \cup ToolsPushed("dataWarehouseTools")

\* C24: whatever the configuration, dimensionalTools and dataWarehouseTools
\* are initialised, ListTools lists their tools and a call of one of their
\* tools reaches its handler.
C24_AlwaysAvailable ==
  config # NoConfig =>
    /\ {"dimensionalTools", "dataWarehouseTools"} \subseteq tools
    /\ response.kind = "tools" => AlwaysAvailableTools \subseteq response.tools
    /\ (response.kind = "call" /\ response.name \in AlwaysAvailableTools)
         => response.handler \in {"dimensionalTools", "dataWarehouseTools"}

\* C30: a name is listed by ListTools exactly when a CallTool request with
\* it reaches a tool's handler, and every CallTool request is answered with
\* a response, which has isError when the handler threw or the tool is
\* unknown.
C30_ListedIffRouted ==
  /\ response.kind = "call" =>
       /\ (response.name \in ListedTools(tools)) <=> (response.handler # "none")
       /\ response.handler = "none" => response.isError
       /\ response.text # ""
  /\ response.kind = "tools" =>
       \A name \in RequestedNames :
         (name \in response.tools) <=> (HandlerOf(Blocks, name, tools) # "none")
  /\ (op \in {"ListTools", "CallTool"} /\ outcome = "returned")
       => response.kind \in {"tools", "call"}

\* The fabric_create_ tool that passes the fabric_ block without a case and
\* is routed by the later block; its handler throws and the request is still
\* answered.
C30_Witness ==
  /\ response.kind = "call"
  /\ response.name = <<"fabric", "create", "data", "pipeline">>
  /\ "fabricTools" \in tools
  /\ response.handler = "fabricPipelineTools"
  /\ response.isError

====
